---- MODULE Spec2Model ----
(***************************************************************************)
(* Caption segmentation and delta emission of backend/bot.py:              *)
(*   - CaptionSegmenter (per-speaker drafts, completed queue, flush_ready) *)
(*   - the caption observer's delta emitter (_on_caption, _emit_periodic)  *)
(*     and its dedup gate (_emit_final, LAST_SENT).                        *)
(* Strings are sequences of one-character strings.  Time is the wall clock *)
(* time.time() in whole seconds.                                           *)
(***************************************************************************)
EXTENDS Integers, Sequences, FiniteSets, TLC

(***************************************************************************)
(* Characters and Python's str predicates / methods.                       *)
(***************************************************************************)
UpperChars == <<"A","B","C","D","E","F","G","H","I","J","K","L","M",
                "N","O","P","Q","R","S","T","U","V","W","X","Y","Z">>
LowerChars == <<"a","b","c","d","e","f","g","h","i","j","k","l","m",
                "n","o","p","q","r","s","t","u","v","w","x","y","z">>
DigitChars == {"0","1","2","3","4","5","6","7","8","9"}
SpaceChars == {" ", "\t", "\n", "\r"}

Range(f) == {f[i] : i \in DOMAIN f}

\* str.isspace() of one character
IsSpace(ch) == ch \in SpaceChars

\* str.isalnum() of one character
AlnumChars == Range(UpperChars) \cup Range(LowerChars) \cup DigitChars
IsAlnum(ch) == ch \in AlnumChars

\* str.lower() of one character
LowerCh(ch) ==
    IF ch \in Range(UpperChars)
    THEN LowerChars[CHOOSE i \in DOMAIN UpperChars : UpperChars[i] = ch]
    ELSE ch

\* str.lower()
Lower(s) == [i \in DOMAIN s |-> LowerCh(s[i])]

\* s[lo-1:hi] in Python terms: the characters at 1-based positions lo..hi
Slice(s, lo, hi) == IF lo > hi THEN <<>> ELSE SubSeq(s, lo, hi)

\* str.strip(): leading and trailing whitespace removed
Strip(s) ==
    LET keep == {i \in DOMAIN s : ~IsSpace(s[i])}
    IN  IF keep = {} THEN <<>>
        ELSE LET lo == CHOOSE i \in keep : \A j \in keep : i <= j
                 hi == CHOOSE i \in keep : \A j \in keep : i >= j
             IN  SubSeq(s, lo, hi)

\* a.startswith(b)
StartsWith(a, b) == Len(b) <= Len(a) /\ SubSeq(a, 1, Len(b)) = b

\* b in a (substring)
Contains(a, b) ==
    \E i \in 0..(Len(a) - Len(b)) : SubSeq(a, i + 1, i + Len(b)) = b

(***************************************************************************)
(* CaptionSegmenter._norm: lowercase, every run of non-alphanumerics       *)
(* becomes one space, then strip().                                        *)
(***************************************************************************)
RECURSIVE NormLoop(_, _, _, _)
NormLoop(s, i, out, last_space) ==
    IF i > Len(s) THEN out
    ELSE IF IsAlnum(s[i]) THEN NormLoop(s, i + 1, Append(out, s[i]), FALSE)
    ELSE IF ~last_space THEN NormLoop(s, i + 1, Append(out, " "), TRUE)
    ELSE NormLoop(s, i + 1, out, TRUE)

\* the result left untrimmed
NormNoStrip(s) == NormLoop(Lower(s), 1, <<>>, FALSE)

\* _norm
Norm(s) == Strip(NormLoop(Lower(s), 1, <<>>, FALSE))

(***************************************************************************)
(* difflib.SequenceMatcher(None, a, b).ratio() >= 0.80, for strings far    *)
(* shorter than the 200 characters at which autojunk starts.               *)
(***************************************************************************)
RECURSIVE RunLen(_, _, _, _, _, _)
\* length of the common run a[i..] = b[j..] inside a[..ahi], b[..bhi]
RunLen(a, i, ahi, b, j, bhi) ==
    IF i > ahi \/ j > bhi \/ a[i] # b[j] THEN 0
    ELSE 1 + RunLen(a, i + 1, ahi, b, j + 1, bhi)

\* find_longest_match: the longest block, earliest in a, then earliest in b
FindLongestMatch(a, alo, ahi, b, blo, bhi) ==
    LET cand == {<<i, j, RunLen(a, i, ahi, b, j, bhi)>> : i \in alo..ahi, j \in blo..bhi}
        best == CHOOSE c \in cand :
                    \A d \in cand :
                        \/ c[3] > d[3]
                        \/ c[3] = d[3] /\ c[1] < d[1]
                        \/ c[3] = d[3] /\ c[1] = d[1] /\ c[2] <= d[2]
    IN  best

RECURSIVE MatchCount(_, _, _, _, _, _)
\* get_matching_blocks: total size of the blocks found left and right of the longest
MatchCount(a, alo, ahi, b, blo, bhi) ==
    IF alo > ahi \/ blo > bhi THEN 0
    ELSE LET m == FindLongestMatch(a, alo, ahi, b, blo, bhi)
         IN  IF m[3] = 0 THEN 0
             ELSE m[3]
                  + MatchCount(a, alo, m[1] - 1, b, blo, m[2] - 1)
                  + MatchCount(a, m[1] + m[3], ahi, b, m[2] + m[3], bhi)

\* ratio() = 2*M/T >= 0.80  <=>  5*M >= 2*T   (ratio() is 1.0 when T = 0)
RatioAtLeast80(a, b) ==
    LET M == MatchCount(a, 1, Len(a), b, 1, Len(b))
        T == Len(a) + Len(b)
    IN  IF T = 0 THEN TRUE ELSE 5 * M >= 2 * T

\* The tail-match window of _should_merge (p[-24:])
TailWindow == 24

(***************************************************************************)
(* CaptionSegmenter._should_merge(prev, curr)                              *)
(***************************************************************************)
\* nothing left after normalizing: no merge
ShouldMergeStrict(prev, curr) ==
    IF prev = <<>> THEN TRUE
    ELSE IF curr = <<>> THEN FALSE
    ELSE IF StartsWith(curr, prev) \/ StartsWith(prev, curr) THEN TRUE
    ELSE LET p == Norm(prev)
             c == Norm(curr)
             tail == IF Len(p) > TailWindow
                     THEN SubSeq(p, Len(p) - TailWindow + 1, Len(p)) ELSE p
         IN  IF p = <<>> \/ c = <<>> THEN FALSE
             ELSE IF StartsWith(c, p) \/ StartsWith(p, c) THEN TRUE
             ELSE IF Contains(c, p) \/ Contains(p, c) THEN TRUE
             ELSE IF tail # <<>> /\ Contains(c, tail) THEN TRUE
             ELSE RatioAtLeast80(p, c)

\* the judge without the tail test
ShouldMergeNoTail(prev, curr) ==
    IF prev = <<>> THEN TRUE
    ELSE IF curr = <<>> THEN FALSE
    ELSE IF StartsWith(curr, prev) \/ StartsWith(prev, curr) THEN TRUE
    ELSE LET p == Norm(prev)
             c == Norm(curr)
         IN  IF p = <<>> \/ c = <<>> THEN TRUE
             ELSE IF StartsWith(c, p) \/ StartsWith(p, c) THEN TRUE
             ELSE IF Contains(c, p) \/ Contains(p, c) THEN TRUE
             ELSE RatioAtLeast80(p, c)

\* _should_merge
ShouldMerge(prev, curr) ==
    IF prev = <<>> THEN TRUE
    ELSE IF curr = <<>> THEN FALSE
    ELSE IF StartsWith(curr, prev) \/ StartsWith(prev, curr) THEN TRUE
    ELSE LET p == Norm(prev)
             c == Norm(curr)
             tail == IF Len(p) > TailWindow
                     THEN SubSeq(p, Len(p) - TailWindow + 1, Len(p)) ELSE p
         IN  IF p = <<>> \/ c = <<>> THEN TRUE
             ELSE IF StartsWith(c, p) \/ StartsWith(p, c) THEN TRUE
             ELSE IF Contains(c, p) \/ Contains(p, c) THEN TRUE
             ELSE IF tail # <<>> /\ Contains(c, tail) THEN TRUE
             ELSE RatioAtLeast80(p, c)

(***************************************************************************)
(* Caption texts and speaker labels fed to the model.                      *)
(***************************************************************************)
Hello      == <<"H","e","l","l","o">>
HelloWor   == <<"H","e","l","l","o"," ","w","o","r">>
HelloWorld == <<"H","e","l","l","o"," ","w","o","r","l","d">>
Goodbye    == <<"G","o","o","d","b","y","e">>
Blank      == <<" ">>
Empty      == <<>>

\* caption texts an event of the one-speaker specifications may carry
Texts == {Blank, Hello, HelloWorld, Goodbye}

Bye        == <<"B","y","e">>
\* every text of the segmenter specifications
AllTexts == Texts \cup {Empty, HelloWor, Bye}

Speakers == {"Alice", "Bob"}

\* what each speaker of the two-speaker specification says
SaidBy(speaker) == IF speaker = "Bob" THEN {Bye} ELSE {Blank, Hello, HelloWorld, Goodbye}

\* _should_merge over the texts of the model, evaluated once
MergeTable == [prev \in AllTexts, curr \in AllTexts |-> ShouldMerge(prev, curr)]
Merges(prev, curr) == MergeTable[prev, curr]

(***************************************************************************)
(* Bounds of the model.                                                    *)
(***************************************************************************)
MaxTime       == 6      \* the clock stops here
MaxEvents     == 3      \* update() calls, one speaker
MaxPairTime   == 5      \* the clock stops here, two speakers
MaxPairEvents == 3      \* update() calls, two speakers
MaxEmitTime   == 2      \* the clock stops here, caption observer
MaxCaptions   == 2      \* onCaption events
MaxTicks      == 2      \* passes of _emit_periodic
MaxLongTime   == 10     \* the clock stops here, long silences
MaxLongEvents == 2      \* update() calls, long silences
MaxInputTime  == 2      \* the clock stops here, both consumers
MaxInputEvents == 3     \* update() calls and onCaption events together
MaxInputTicks == 1      \* passes of _emit_periodic, both consumers
MaxSinkTime   == 2      \* the clock stops here, sink outcomes
MaxSinkCaptions == 2    \* onCaption events, sink outcomes
MaxSinkTicks  == 2      \* passes of _emit_periodic, sink outcomes
MaxLockTime   == 4      \* the clock stops here, calls step by step
MaxLockEvents == 3      \* update() calls, step by step
MaxEndTime    == 3      \* the clock stops here, end of the meeting
MaxEndCaptions == 3     \* onCaption events, end of the meeting
MaxEndTicks   == 3      \* passes of _emit_periodic, end of the meeting
MaxStampTime  == 4      \* the clock stops here, events with their own ts
MaxStampEvents == 3     \* update() calls, events with their own ts
MaxOrderTime  == 7      \* the clock stops here, returned lists kept
MaxOrderEvents == 3     \* update() calls, returned lists kept
MaxNormLen    == 4      \* length of the strings given to _norm
MaxMergeLen   == 2      \* length of the short strings given to _should_merge
MaxPrefixLen  == 3      \* length of the strings given to _prefix_len
MaxGateTime   == 3      \* the clock stops here, dedup gate
MaxGateCalls  == 3      \* _emit_final calls
MaxLiveTime   == 12     \* the clock stops here, flush liveness
MaxLiveEvents == 2      \* update() calls, flush liveness
MaxAppCalls   == 4      \* requests to the backend
MaxPruneSpan  == 3      \* seconds around the retention cutoff, pruning
MaxPruneSmall == 3      \* size of the short tables, pruning

(***************************************************************************)
(* CaptionSegmenter.__init__ parameters.  The class takes them without     *)
(* defaults; the values keep the order of the module's settings            *)
(* (MERGE_GAP 1.0 < CAPTION_IDLE 2.0 < REVISION_WINDOW 8.0 <               *)
(* MAX_SEGMENT 20.0 < FORCE_SPLIT_GAP 30.0) on a shorter time scale.       *)
(***************************************************************************)
merge_gap_seconds       == 1
idle_seconds            == 3
revision_window_seconds == 4
max_segment_seconds     == 5
force_split_gap_seconds == 6

VARIABLES
    now,                \* time.time()
    merge_consecutive,  \* self.merge_consecutive
    segments,           \* self._segments: the dict's items, in insertion order
    completed,          \* self._completed
    nUpdates,           \* number of update() calls
    lastOp,             \* the last step: the call, its arguments, what it returned
    run,                \* one speaker's accepted events so far, summarised
    since,              \* the utterances returned since that speaker's last event
    nOut,               \* the number of utterances returned so far
    curr_by_speaker,    \* the dict's items, in insertion order
    emitted_last_by_speaker,
    LAST_SENT,          \* dedupe key -> time of the last emission
    last_caption_time,  \* last_caption_time["t"]
    sink,               \* the lines that passed the gate, handed to the POST / the log
    tick,               \* _emit_periodic: asleep, or the items it still has to handle
    nCaptions,          \* number of onCaption events delivered
    nTicks,             \* number of passes of _emit_periodic started
    post,               \* the line whose POST _emit_final is waiting on
    captions_log,       \* the lines appended to CAPTIONS_LOG_PATH
    lock,               \* self._lock: the call holding it, "" when free
    upd,                \* an update() call in progress, step by step
    fl,                 \* a flush_ready() call in progress, step by step
    session,            \* "live" until a monitor closes the page's context
    event_ts,           \* the ts argument of the last update() call
    out,                \* every utterance flush_ready() has returned, in order
    fn,                 \* a helper called on its own: its name, arguments, result
    app                 \* the backend's APP_STATE and the bot process it supervises

segVars == <<merge_consecutive, segments, completed>>
obsVars == <<run, since, nOut>>
emitVars == <<curr_by_speaker, emitted_last_by_speaker, LAST_SENT, last_caption_time,
              sink, tick, nCaptions, nTicks>>
callVars == <<post, captions_log, lock, upd, fl, session, event_ts, out, fn, app>>
vars == <<now, merge_consecutive, segments, completed, nUpdates, lastOp, run, since, nOut,
          curr_by_speaker, emitted_last_by_speaker, LAST_SENT, last_caption_time,
          sink, tick, nCaptions, nTicks, post, captions_log, lock, upd, fl, session,
          event_ts, out, fn, app>>

\* a step of the model: the call made, its arguments and the list it returned
Op(op, speaker, text, ret) == [op |-> op, spk |-> speaker, text |-> text, ret |-> ret]

(***************************************************************************)
(* dataclass Segment and the dict self._segments.                          *)
(***************************************************************************)
Segment(speaker, combined, frag, started_at, updated_at) ==
    [spk |-> speaker, combined |-> combined, frag |-> frag,
     started_at |-> started_at, updated_at |-> updated_at]

\* positions of the speaker's entries in the dict
IndexOf(segs, speaker) == {i \in DOMAIN segs : segs[i].spk = speaker}

\* self._segments.get(speaker) is not None
HasSeg(segs, speaker) == IndexOf(segs, speaker) # {}

\* the lookup ignores the key
GetSegAny(segs, speaker) == segs[1]

\* self._segments.get(speaker)
GetSeg(segs, speaker) == segs[CHOOSE i \in IndexOf(segs, speaker) : TRUE]

\* every assignment adds an entry
PutSegAppends(segs, seg) == Append(segs, seg)

\* self._segments[speaker] = seg  (an existing key keeps its place)
PutSeg(segs, seg) ==
    IF HasSeg(segs, seg.spk)
    THEN [i \in DOMAIN segs |-> IF segs[i].spk = seg.spk THEN seg ELSE segs[i]]
    ELSE Append(segs, seg)

\* the two parts glued without a space
SegmentTextGlued(seg) == Strip(Strip(seg.combined) \o Strip(seg.frag))

\* only the committed text, when there is one
SegmentTextCommitted(seg) ==
    IF Strip(seg.combined) # <<>> THEN Strip(seg.combined) ELSE Strip(seg.frag)

\* CaptionSegmenter._segment_text
SegmentText(seg) ==
    LET combined == Strip(seg.combined)
        frag == Strip(seg.frag)
    IN  IF combined # <<>> /\ frag # <<>>
        THEN Strip(combined \o <<" ">> \o frag)
        ELSE Strip(IF combined # <<>> THEN combined ELSE frag)

\* an entry of self._completed / of the list flush_ready() returns
Utterance(speaker, text, t) == [spk |-> speaker, text |-> text, t |-> t]

(***************************************************************************)
(* CaptionSegmenter.update, under the lock.                                *)
(***************************************************************************)
\* the split re-opens the last completed segment instead of queueing
SplitOffReopens(segs, comp, seg, text, t) ==
    [segments  |-> PutSeg(segs, Segment(seg.spk, <<>>, text, t, t)),
     completed |-> IF comp # <<>>
                   THEN [comp EXCEPT ![Len(comp)] =
                            Utterance(seg.spk, SegmentText(seg), seg.updated_at)]
                   ELSE Append(comp, Utterance(seg.spk, SegmentText(seg), seg.updated_at))]

\* the old draft thrown away
SplitOffDrops(segs, comp, seg, text, t) ==
    [segments  |-> PutSeg(segs, Segment(seg.spk, <<>>, text, t, t)),
     completed |-> comp]

\* a split that queues the old draft whatever its text
SplitOffQueuesAll(segs, comp, seg, text, t) ==
    [segments  |-> PutSeg(segs, Segment(seg.spk, <<>>, text, t, t)),
     completed |-> Append(comp, Utterance(seg.spk, SegmentText(seg), seg.updated_at))]

\* prev = _segment_text(seg); if prev: _completed.append(...); fresh draft
SplitOff(segs, comp, seg, text, t) ==
    LET prev == SegmentText(seg)
    IN  [segments  |-> PutSeg(segs, Segment(seg.spk, <<>>, text, t, t)),
         completed |-> IF prev # <<>>
                       THEN Append(comp, Utterance(seg.spk, prev, seg.updated_at))
                       ELSE comp]

\* a revision treated as a new fragment
OverwriteQueues(segs, comp, seg, text, t) == SplitOff(segs, comp, seg, text, t)

\* a revision that restarts the draft's clock
OverwriteRestarts(segs, comp, seg, text, t) ==
    [segments  |-> PutSeg(segs, [seg EXCEPT !.frag = text, !.updated_at = t,
                                            !.started_at = t]),
     completed |-> comp]

\* the old fragment kept as committed text
OverwriteCommits(segs, comp, seg, text, t) ==
    [segments  |-> PutSeg(segs, [seg EXCEPT !.combined = seg.frag, !.frag = text,
                                            !.updated_at = t]),
     completed |-> comp]

\* a revision that leaves the draft's last update time alone
OverwriteStale(segs, comp, seg, text, t) ==
    [segments  |-> PutSeg(segs, [seg EXCEPT !.frag = text]),
     completed |-> comp]

\* seg.frag = text; seg.updated_at = now
Overwrite(segs, comp, seg, text, t) ==
    [segments  |-> PutSeg(segs, [seg EXCEPT !.frag = text, !.updated_at = t]),
     completed |-> comp]

\* the previous fragment glued to the committed text
FoldNoSpace(segs, comp, seg, text, t) ==
    [segments  |-> PutSeg(segs, [seg EXCEPT !.combined = Strip(seg.combined) \o Strip(seg.frag),
                                            !.frag = text, !.updated_at = t]),
     completed |-> comp]

\* a fold that leaves the committed text as it was: the old fragment is lost
FoldForgets(segs, comp, seg, text, t) ==
    [segments  |-> PutSeg(segs, [seg EXCEPT !.frag = text, !.updated_at = t]),
     completed |-> comp]

\* grouped mode: the previous fragment moves into combined
Fold(segs, comp, seg, text, t) ==
    LET frag == Strip(seg.frag)
        combined == Strip(seg.combined)
        joined == IF frag = <<>> THEN seg.combined
                  ELSE IF combined # <<>> THEN Strip(combined \o <<" ">> \o frag)
                  ELSE frag
    IN  [segments  |-> PutSeg(segs, [seg EXCEPT !.combined = joined,
                                                !.frag = text, !.updated_at = t]),
         completed |-> comp]

\* no force split
ForceSplitNever(gap) == FALSE

\* gap > self.force_split_gap_seconds
ForceSplit(gap) == gap > force_split_gap_seconds

\* the body of update() after "if not text: return"
UpdateSeg(segs, comp, grouped, speaker, text, t) ==
    IF ~HasSeg(segs, speaker)
    THEN [segments |-> PutSeg(segs, Segment(speaker, <<>>, text, t, t)),
          completed |-> comp]
    ELSE LET seg == GetSeg(segs, speaker)
             gap == t - seg.updated_at
         IN  IF ForceSplit(gap)
             THEN SplitOff(segs, comp, seg, text, t)
             ELSE IF gap <= revision_window_seconds /\ Merges(seg.frag, text)
             THEN Overwrite(segs, comp, seg, text, t)
             ELSE IF gap > revision_window_seconds /\ ~Merges(seg.frag, text)
             THEN SplitOff(segs, comp, seg, text, t)
             ELSE IF grouped
             THEN IF gap > merge_gap_seconds
                  THEN SplitOff(segs, comp, seg, text, t)
                  ELSE Fold(segs, comp, seg, text, t)
             ELSE Overwrite(segs, comp, seg, text, t)

\* no early return
IgnoredNever(text) == FALSE

\* "if not text: return"
Ignored(text) == text = <<>>

\* update(speaker=, text=, ts=): ts is accepted and never read
UpdateStep(speaker, text, ts) ==
    /\ nUpdates' = nUpdates + 1
    /\ lastOp' = Op("update", speaker, text, <<>>)
    /\ IF Ignored(text)
       THEN UNCHANGED <<segments, completed>>
       ELSE LET r == UpdateSeg(segments, completed, merge_consecutive, speaker, text, now)
            IN  /\ segments' = r.segments
                /\ completed' = r.completed
    /\ UNCHANGED <<now, merge_consecutive>>

(***************************************************************************)
(* CaptionSegmenter.flush_ready                                            *)
(***************************************************************************)
\* a completed entry leaves at the first call
CompletedReadyAlways(c, t) == TRUE

\* (now - t_updated) >= self.idle_seconds, for a completed entry
CompletedReady(c, t) == (t - c.t) >= idle_seconds

\* stable, for a live draft
Stable(seg, t) == (t - seg.updated_at) >= idle_seconds
\* no cap on a draft's age
TooLongNever(seg, t) == FALSE

\* a flush that leaves every draft where it is
DraftReadyNever(seg, t) == FALSE

\* too_long, for a live draft
TooLong(seg, t) == (t - seg.started_at) >= max_segment_seconds
DraftReady(seg, t) == Stable(seg, t) \/ TooLong(seg, t)

\* the drafts put in front of the completed entries
ToFlushDraftsFirst(segs, comp, t) ==
    LET ReadyC(c) == CompletedReady(c, t)
        ReadyS(seg) == DraftReady(seg, t)
        drafts == SelectSeq(segs, ReadyS)
    IN  [i \in DOMAIN drafts |->
               Utterance(drafts[i].spk, SegmentText(drafts[i]), drafts[i].updated_at)]
        \o SelectSeq(comp, ReadyC)

\* the list flush_ready() returns at time t
ToFlush(segs, comp, t) ==
    LET ReadyC(c) == CompletedReady(c, t)
        ReadyS(seg) == DraftReady(seg, t)
        drafts == SelectSeq(segs, ReadyS)
    IN  SelectSeq(comp, ReadyC)
        \o [i \in DOMAIN drafts |->
               Utterance(drafts[i].spk, SegmentText(drafts[i]), drafts[i].updated_at)]

\* self._completed after flush_ready() at time t
RemainingCompleted(comp, t) ==
    LET Waiting(c) == ~CompletedReady(c, t)
    IN  SelectSeq(comp, Waiting)

\* self._segments after flush_ready() at time t
RemainingSegments(segs, t) ==
    LET Live(seg) == ~DraftReady(seg, t)
    IN  SelectSeq(segs, Live)

FlushStep ==
    /\ completed' = RemainingCompleted(completed, now)
    /\ segments' = RemainingSegments(segments, now)
    /\ lastOp' = Op("flush_ready", "", <<>>, ToFlush(segments, completed, now))
    /\ UNCHANGED <<now, merge_consecutive, nUpdates>>

\* the wall clock advances by a second
ClockStep ==
    /\ now' = now + 1
    /\ lastOp' = Op("tick", "", <<>>, <<>>)
    /\ UNCHANGED <<merge_consecutive, segments, completed, nUpdates>>

InitSeg ==
    /\ now = 0
    /\ merge_consecutive \in BOOLEAN
    /\ segments = <<>>
    /\ completed = <<>>
    /\ nUpdates = 0
    /\ lastOp = Op("init", "", <<>>, <<>>)
    /\ lock = ""
    /\ upd = <<>>
    /\ fl = <<>>
    /\ event_ts = 0
    /\ out = <<>>
    /\ fn = <<>>

(***************************************************************************)
(* What is recorded of one speaker's events and of the utterances returned *)
(***************************************************************************)
NoRun == [n |-> 0, first |-> 0, last |-> 0, text |-> <<>>, chain |-> TRUE, gap |-> 0,
          cut |-> <<>>]

Max(a, b) == IF a >= b THEN a ELSE b

\* the live draft an event finds when it comes after a silence longer than
\* force_split_gap_seconds (none otherwise)
CutBy(segs, speaker, t) ==
    IF HasSeg(segs, speaker) /\ t - GetSeg(segs, speaker).updated_at > force_split_gap_seconds
    THEN <<GetSeg(segs, speaker)>>
    ELSE <<>>

\* the summary after one more accepted event (text, at time t)
RunAfter(r, text, t, cut) ==
    IF r.n = 0
    THEN [n |-> 1, first |-> t, last |-> t, text |-> text, chain |-> TRUE, gap |-> 0,
          cut |-> cut]
    ELSE [n |-> r.n + 1, first |-> r.first, last |-> t, text |-> text,
          chain |-> r.chain /\ StartsWith(text, r.text),
          gap |-> Max(r.gap, t - r.last), cut |-> cut]

(***************************************************************************)
(* The caption observer: _on_caption, _emit_periodic, _prefix_len and the  *)
(* dedup gate _emit_final.                                                 *)
(***************************************************************************)
DEDUP_WINDOW_SECONDS == 2
LastSentLimit == 5000       \* len(LAST_SENT) > 5000
LastSentKeep  == 120        \* cutoff = now - 120

Unknown == <<"U","n","k","n","o","w","n">>

\* a dict as a function: d.get(k, dflt) and d[k] = v
DictGet(d, k, dflt) == IF k \in DOMAIN d THEN d[k] ELSE dflt
DictPut(d, k, v) == [x \in (DOMAIN d) \cup {k} |-> IF x = k THEN v ELSE d[x]]

\* curr_by_speaker[speaker] = curr, the dict kept as its list of items
PutCurr(items, speaker, curr) ==
    IF \E i \in DOMAIN items : items[i].spk = speaker
    THEN [i \in DOMAIN items |->
             IF items[i].spk = speaker THEN [spk |-> speaker, text |-> curr] ELSE items[i]]
    ELSE Append(items, [spk |-> speaker, text |-> curr])

\* a key made of the text alone
DedupeKeyTextOnly(spk, txt) == txt

\* f"{spk}|{txt}"
DedupeKey(spk, txt) == spk \o <<"|">> \o txt

\* a sweep that also takes the entries exactly at the cutoff
PrunedAtCutoff(ls, t) ==
    IF Cardinality(DOMAIN ls) > LastSentLimit
    THEN LET kept == {k \in DOMAIN ls : ~(ls[k] <= t - LastSentKeep)}
         IN  [k \in kept |-> ls[k]]
    ELSE ls

\* the pruning of LAST_SENT once it holds more than 5000 keys
Pruned(ls, t) ==
    IF Cardinality(DOMAIN ls) > LastSentLimit
    THEN LET kept == {k \in DOMAIN ls : ~(ls[k] < t - LastSentKeep)}
         IN  [k \in kept |-> ls[k]]
    ELSE ls

\* no gate
DroppedNever(ls, key, t) == FALSE

\* the dedup gate: the key was sent less than DEDUP_WINDOW_SECONDS ago
Dropped(ls, key, t) == key \in DOMAIN ls /\ t - DictGet(ls, key, 0) < DEDUP_WINDOW_SECONDS

\* a gate whose dropped attempts restart the window
EmitFinalRefreshes(ls, snk, speaker, text, ts, t) ==
    LET txt == Strip(text)
        spk == Strip(speaker)
        key == DedupeKey(spk, txt)
    IN  IF txt = <<>>
        THEN [last_sent |-> ls, sink |-> snk]
        ELSE IF Dropped(ls, key, t)
        THEN [last_sent |-> DictPut(ls, key, t), sink |-> snk]
        ELSE [last_sent |-> Pruned(DictPut(ls, key, t), t),
              sink |-> Append(snk, [spk |-> spk, text |-> txt, ts |-> ts, at |-> t])]

\* _emit_final(speaker, text, ts) called at wall-clock time t
EmitFinal(ls, snk, speaker, text, ts, t) ==
    LET txt == Strip(text)
        spk == Strip(speaker)
        key == DedupeKey(spk, txt)
    IN  IF txt = <<>>
        THEN [last_sent |-> ls, sink |-> snk]
        ELSE IF Dropped(ls, key, t)
        THEN [last_sent |-> ls, sink |-> snk]
        ELSE [last_sent |-> Pruned(DictPut(ls, key, t), t),
              sink |-> Append(snk, [spk |-> spk, text |-> txt, ts |-> ts, at |-> t])]

RECURSIVE SkipSpaces(_, _)
\* while i < la and a[i].isspace(): i += 1     (i counts from 0)
SkipSpaces(a, i) == IF i < Len(a) /\ IsSpace(a[i + 1]) THEN SkipSpaces(a, i + 1) ELSE i

RECURSIVE PrefixLoop(_, _, _, _)
\* the while loop of _prefix_len
PrefixLoop(a, b, i, j) ==
    IF ~(i < Len(a) /\ j < Len(b)) THEN j
    ELSE LET sa == IsSpace(a[i + 1])
             sb == IsSpace(b[j + 1])
             i2 == IF sa THEN SkipSpaces(a, i) ELSE i
             j2 == IF sb THEN SkipSpaces(b, j) ELSE j
             ca == IF sa THEN " " ELSE a[i + 1]
             cb == IF sb THEN " " ELSE b[j + 1]
         IN  IF LowerCh(ca) = LowerCh(cb)
             THEN PrefixLoop(a, b, i2 + 1, j2 + 1)
             ELSE j2

\* no common prefix found
PrefixLenZero(a, b) == 0

\* _prefix_len(a, b)
PrefixLen(a, b) == PrefixLoop(a, b, 0, 0)

\* a delta that is the whole snapshot whatever was sent before
DeltaWhole(prev, curr) == curr

\* delta of _emit_periodic for one (speaker, curr) item
Delta(prev, curr) ==
    IF prev # <<>>
    THEN Strip(Slice(curr, PrefixLen(prev, curr) + 1, Len(curr)))
    ELSE curr

\* "if delta and len(delta) >= 2"
Emits(delta) == delta # <<>> /\ Len(delta) >= 2

\* the label kept as it came
LabelKept(speaker) == Strip(speaker)

\* speaker = "Unknown" when the stripped label is empty
LabelOf(speaker) == IF Strip(speaker) = <<>> THEN Unknown ELSE Strip(speaker)

\* _on_caption(data), data = {"speaker": speaker, "text": text}
OnCaptionStep(speaker, text) ==
    LET curr == Strip(text)
    IN  /\ tick = <<"sleep">>
        /\ nCaptions' = nCaptions + 1
        /\ lastOp' = Op("on_caption", speaker, text, <<>>)
        /\ IF curr = <<>>
           THEN UNCHANGED <<last_caption_time, curr_by_speaker>>
           ELSE /\ last_caption_time' = now
                /\ curr_by_speaker' = PutCurr(curr_by_speaker, LabelOf(speaker), curr)
        /\ UNCHANGED <<now, emitted_last_by_speaker, LAST_SENT, sink, tick, nTicks>>

\* _emit_periodic wakes up: now = time.time(); list(curr_by_speaker.items())
WakeStep ==
    /\ tick = <<"sleep">>
    /\ nTicks' = nTicks + 1
    /\ tick' = <<"emit", now, curr_by_speaker>>
    /\ lastOp' = Op("wake", <<>>, <<>>, <<>>)
    /\ UNCHANGED <<now, curr_by_speaker, emitted_last_by_speaker, LAST_SENT,
                   last_caption_time, sink, nCaptions>>

\* one iteration of the for loop of _emit_periodic
EmitOneStep ==
    /\ tick[1] = "emit"
    /\ tick[3] # <<>>
    /\ LET speaker == Head(tick[3]).spk
           curr == Head(tick[3]).text
           prev == DictGet(emitted_last_by_speaker, speaker, <<>>)
           delta == Delta(prev, curr)
           r == EmitFinal(LAST_SENT, sink, speaker, delta, tick[2], now)
       IN  /\ IF Emits(delta)
              THEN /\ LAST_SENT' = r.last_sent
                   /\ sink' = r.sink
                   /\ emitted_last_by_speaker' =
                          DictPut(emitted_last_by_speaker, speaker, curr)
              ELSE /\ UNCHANGED <<LAST_SENT, sink>>
                   /\ emitted_last_by_speaker' =
                          DictPut(emitted_last_by_speaker, speaker,
                                  IF prev # <<>> THEN prev ELSE curr)
           /\ lastOp' = Op("emit", speaker, curr, <<prev, delta>>)
    /\ tick' = <<"emit", tick[2], Tail(tick[3])>>
    /\ UNCHANGED <<now, curr_by_speaker, last_caption_time, nCaptions, nTicks>>

\* the for loop is over: back to asyncio.sleep
SleepStep ==
    /\ tick[1] = "emit"
    /\ tick[3] = <<>>
    /\ tick' = <<"sleep">>
    /\ lastOp' = Op("sleep", <<>>, <<>>, <<>>)
    /\ UNCHANGED <<now, curr_by_speaker, emitted_last_by_speaker, LAST_SENT,
                   last_caption_time, sink, nCaptions, nTicks>>

\* the wall clock advances by a second (also while a POST blocks the loop)
ClockEmitStep ==
    /\ now' = now + 1
    /\ lastOp' = Op("tick", "", <<>>, <<>>)
    /\ UNCHANGED emitVars

InitEmit ==
    /\ curr_by_speaker = <<>>
    /\ emitted_last_by_speaker = <<>>
    /\ LAST_SENT = <<>>
    /\ last_caption_time = 0
    /\ sink = <<>>
    /\ tick = <<"sleep">>
    /\ nCaptions = 0
    /\ nTicks = 0
    /\ post = <<>>
    /\ captions_log = <<>>
    /\ session = "live"

(***************************************************************************)
(* app/main.py and app/services/state.py: the backend that receives the    *)
(* captions, puts keyword-triggered planned messages on the bot's command  *)
(* queue, supervises the bot process and finalizes the session.            *)
(***************************************************************************)
\* asyncio.Queue(maxsize=200), on a shorter scale
QueueMaxsize == 1

\* the session's event, and the planned messages in insertion order
SessionEvent == "ev1"
PlannedIds == <<"pm1", "pm2", "pm3", "pm4">>

PlannedMessage(type, event_id, keywords, text) ==
    [status |-> "pending", trigger_type |-> type, event_id |-> event_id,
     keywords |-> keywords, text |-> text]

\* POST /planned-messages, four times before the meeting
InitPlanned ==
    [id \in {"pm1", "pm2", "pm3", "pm4"} |->
        CASE id = "pm1" -> PlannedMessage("keyword", "", << <<"G", "o">> >>, <<"A">>)
          [] id = "pm2" -> PlannedMessage("keywords", SessionEvent,
                                          << <<" ">>, <<"n", "o">> >>, <<" ", "B">>)
          [] id = "pm3" -> PlannedMessage("keyword", "ev2", << <<"g", "o">> >>, <<"C">>)
          [] id = "pm4" -> PlannedMessage("offset", "", << <<"g", "o">> >>, <<"D">>)]

\* the state after create_bot() and _start_bot_process()
InitApp ==
    [state |-> "joining", planned_messages |-> InitPlanned,
     has_queue |-> TRUE, queue |-> <<>>, commands |-> <<>>, captions |-> <<>>,
     finalized |-> 0, proc |-> "running", registered |-> TRUE,
     watcher |-> "polling", nCalls |-> 0]

\* AppState.enqueue_command(bot_id, cmd) on the state a
EnqueueCommand(a, cmd) ==
    IF ~a.has_queue THEN [ok |-> FALSE, app |-> a]
    ELSE IF Len(a.queue) >= QueueMaxsize THEN [ok |-> FALSE, app |-> a]
    ELSE [ok |-> TRUE,
          app |-> [a EXCEPT !.queue = Append(@, cmd), !.commands = Append(@, cmd)]]

\* _enqueue_chat(bot_id, text, source=source)
EnqueueChat(a, text, source) ==
    IF Strip(text) = <<>> THEN [ok |-> FALSE, app |-> a]
    ELSE EnqueueCommand(a, [type |-> "chat", text |-> Strip(text), source |-> source])

\* _pm_matches_session(pm, event_id=event_id, meet_link=meet_link)
PmMatchesSession(pm) == pm.event_id = "" \/ pm.event_id = SessionEvent

RECURSIVE MatchedKeyword(_, _)
\* the first keyword found in msg_text, <<>> when there is none
MatchedKeyword(keywords, msg_text) ==
    IF keywords = <<>> THEN <<>>
    ELSE LET k == Lower(Strip(Head(keywords)))
         IN  IF k # <<>> /\ Contains(msg_text, k) THEN k
             ELSE MatchedKeyword(Tail(keywords), msg_text)

KeywordTypes == {"keyword", "keywords", "keyword_cues"}

\* a planned message for which the status test never finds "posted"
AlreadyPostedNever(pm) == FALSE

\* (pm.get("status") or "").strip().lower() == "posted"
AlreadyPosted(pm) == pm.status = "posted"

\* one iteration of the for loop of _maybe_trigger_keyword_planned_messages
TriggerOne(a, id, msg_text) ==
    LET pm == a.planned_messages[id]
        say == Strip(pm.text)
    IN  IF \/ ~PmMatchesSession(pm)
           \/ pm.trigger_type \notin KeywordTypes
           \/ AlreadyPosted(pm)
           \/ MatchedKeyword(pm.keywords, msg_text) = <<>>
           \/ say = <<>>
        THEN a
        ELSE LET r == EnqueueChat(a, say, "planned_keyword")
             IN  IF r.ok
                 THEN [r.app EXCEPT !.planned_messages[id].status = "posted"]
                 ELSE a

RECURSIVE TriggerLoop(_, _, _)
TriggerLoop(a, ids, msg_text) ==
    IF ids = <<>> THEN a
    ELSE TriggerLoop(TriggerOne(a, Head(ids), msg_text), Tail(ids), msg_text)

\* _maybe_trigger_keyword_planned_messages(bot_id, meet_link=..., text=text)
MaybeTrigger(a, text) ==
    IF a.state = "ended" THEN a
    ELSE IF Lower(Strip(text)) = <<>> THEN a
    ELSE TriggerLoop(a, PlannedIds, Lower(Strip(text)))

\* AppState._finalize_session(bot_id): transcript, summary, webhook
FinalizeSession(a) == [a EXCEPT !.finalized = @ + 1]

\* AppState.set_state(bot_id, state)
SetState(a, state) ==
    IF state = "ended" THEN FinalizeSession([a EXCEPT !.state = state])
    ELSE [a EXCEPT !.state = state]

\* _stop_bot_process(bot_id): the process is terminated; the command queue is
\* dropped when no process was registered or when terminate() did not do
StopBotProcess(a, graceful) ==
    IF ~a.registered THEN [a EXCEPT !.has_queue = FALSE]
    ELSE IF graceful THEN [a EXCEPT !.registered = FALSE, !.proc = "exited"]
    ELSE [a EXCEPT !.registered = FALSE, !.proc = "exited", !.has_queue = FALSE]

Init ==
    /\ InitSeg
    /\ InitEmit
    /\ app = InitApp
    /\ run = NoRun
    /\ since = <<>>
    /\ nOut = 0

(***************************************************************************)
(* Spec: the segmenter fed by one speaker, its events summarised and the   *)
(* utterances returned since the last event recorded.                      *)
(***************************************************************************)
RunSpeaker == "Alice"

Tick ==
    /\ now < MaxTime
    /\ ClockStep
    /\ UNCHANGED obsVars
    /\ UNCHANGED <<emitVars, callVars>>

Update(text, ts) ==
    /\ nUpdates < MaxEvents
    /\ UpdateStep(RunSpeaker, text, ts)
    /\ IF Ignored(text)
       THEN UNCHANGED obsVars
       ELSE /\ run' = RunAfter(run, text, now, CutBy(segments, RunSpeaker, now))
            /\ since' = <<>>
            /\ nOut' = nOut
    /\ UNCHANGED <<emitVars, callVars>>

FlushReady ==
    /\ FlushStep
    /\ since' = since \o ToFlush(segments, completed, now)
    /\ nOut' = nOut + Len(ToFlush(segments, completed, now))
    /\ UNCHANGED run
    /\ UNCHANGED <<emitVars, callVars>>

Next ==
    \/ Tick
    \/ \E text \in Texts, ts \in {0, now} : Update(text, ts)
    \/ FlushReady

Spec == Init /\ [][Next]_vars

(***************************************************************************)
(* SpecPair: the segmenter fed by two speakers.                            *)
(***************************************************************************)
TickPair ==
    /\ now < MaxPairTime
    /\ ClockStep
    /\ UNCHANGED obsVars
    /\ UNCHANGED <<emitVars, callVars>>

UpdatePair(speaker, text, ts) ==
    /\ nUpdates < MaxPairEvents
    /\ UpdateStep(speaker, text, ts)
    /\ UNCHANGED obsVars
    /\ UNCHANGED <<emitVars, callVars>>

FlushPair ==
    /\ FlushStep
    /\ UNCHANGED obsVars
    /\ UNCHANGED <<emitVars, callVars>>

NextPair ==
    \/ TickPair
    \/ \E speaker \in Speakers : \E text \in SaidBy(speaker), ts \in {0, now} :
           UpdatePair(speaker, text, ts)
    \/ FlushPair

SpecPair == Init /\ [][NextPair]_vars
(***************************************************************************)
(* SpecEmit: the caption observer.                                         *)
(***************************************************************************)
ThePlanIs       == <<"T","h","e"," ","p","l","a","n"," ","i","s">>
ThePlanIsToShip == ThePlanIs \o <<" ","t","o"," ","s","h","i","p">>
Hi              == <<"H","i">>
HiHi            == <<"H","i"," ","H","i">>
Al              == <<"A","l">>

\* what data["text"] and data["speaker"] of an onCaption event may be
CaptionTexts == {Empty, Blank, Hi, HiHi, ThePlanIs, ThePlanIsToShip}
CaptionSpeakers == {Empty, Al}

TickEmit ==
    /\ now < MaxEmitTime
    /\ ClockEmitStep
    /\ UNCHANGED <<segVars, obsVars, nUpdates, callVars>>

OnCaption(speaker, text) ==
    /\ nCaptions < MaxCaptions
    /\ OnCaptionStep(speaker, text)
    /\ UNCHANGED <<segVars, obsVars, nUpdates, callVars>>

Wake ==
    /\ nTicks < MaxTicks
    /\ WakeStep
    /\ UNCHANGED <<segVars, obsVars, nUpdates, callVars>>

EmitOne ==
    /\ EmitOneStep
    /\ UNCHANGED <<segVars, obsVars, nUpdates, callVars>>

Sleep ==
    /\ SleepStep
    /\ UNCHANGED <<segVars, obsVars, nUpdates, callVars>>

NextEmit ==
    \/ TickEmit
    \/ \E speaker \in CaptionSpeakers, text \in CaptionTexts : OnCaption(speaker, text)
    \/ Wake
    \/ EmitOne
    \/ Sleep

InitOneMode == Init /\ merge_consecutive = FALSE

SpecEmit == InitOneMode /\ [][NextEmit]_vars

(***************************************************************************)
(* SpecLong: one speaker, few events, long silences.                       *)
(***************************************************************************)
TickLong ==
    /\ now < MaxLongTime
    /\ ClockStep
    /\ UNCHANGED obsVars
    /\ UNCHANGED <<emitVars, callVars>>

UpdateLong(text, ts) ==
    /\ nUpdates < MaxLongEvents
    /\ UpdateStep(RunSpeaker, text, ts)
    /\ IF Ignored(text)
       THEN UNCHANGED obsVars
       ELSE /\ run' = RunAfter(run, text, now, CutBy(segments, RunSpeaker, now))
            /\ since' = <<>>
            /\ nOut' = nOut
    /\ UNCHANGED <<emitVars, callVars>>

NextLong ==
    \/ TickLong
    \/ \E text \in Texts, ts \in {0, now} : UpdateLong(text, ts)
    \/ FlushReady

SpecLong == Init /\ [][NextLong]_vars

(***************************************************************************)
(* SpecInput: caption events reaching both consumers, update() of the      *)
(* segmenter and the observer's _on_caption.                               *)
(***************************************************************************)
InputTexts == {Empty, Blank, Hello}

TickInput ==
    /\ now < MaxInputTime
    /\ tick = <<"sleep">>
    /\ ClockStep
    /\ UNCHANGED obsVars
    /\ UNCHANGED <<emitVars, callVars>>

UpdateInput(speaker, text, ts) ==
    /\ nUpdates + nCaptions < MaxInputEvents
    /\ tick = <<"sleep">>
    /\ UpdateStep(speaker, text, ts)
    /\ UNCHANGED obsVars
    /\ UNCHANGED <<emitVars, callVars>>

FlushInput ==
    /\ tick = <<"sleep">>
    /\ FlushStep
    /\ UNCHANGED obsVars
    /\ UNCHANGED <<emitVars, callVars>>

CaptionInput(speaker, text) ==
    /\ nUpdates + nCaptions < MaxInputEvents
    /\ OnCaptionStep(speaker, text)
    /\ UNCHANGED <<segVars, obsVars, nUpdates, callVars>>

WakeInput ==
    /\ nTicks < MaxInputTicks
    /\ WakeStep
    /\ UNCHANGED <<segVars, obsVars, nUpdates, callVars>>

NextInput ==
    \/ TickInput
    \/ \E text \in InputTexts, ts \in {0, now} : UpdateInput(RunSpeaker, text, ts)
    \/ FlushInput
    \/ \E speaker \in CaptionSpeakers, text \in InputTexts : CaptionInput(speaker, text)
    \/ WakeInput
    \/ EmitOne
    \/ Sleep

SpecInput == Init /\ [][NextInput]_vars

(***************************************************************************)
(* SpecSink: the emitter with the sink's answer made visible.  The POST of *)
(* _emit_final is a blocking urllib call made on the event loop, so the    *)
(* loop iteration is split where the call waits for the backend.           *)
(***************************************************************************)
SinkTexts == {Blank, Hi, HiHi}

\* what the backend does with a POST: answers below 400, answers 400 or
\* more, or urlopen raises (refused connection, timeout)
BackendOutcomes == {"ok", "status", "raise"}

\* what the append to CAPTIONS_LOG_PATH does
LogOutcomes == {"written", "raise"}

\* urlopen(req, timeout=5)
PostTimeout == 5

\* line = f"[{time.strftime('%H:%M:%S')}] {prefix}{txt}"
Line(spk, txt, t) ==
    <<"[", t, "]", " ">> \o (IF spk # <<>> THEN spk \o <<":", " ">> ELSE <<>>) \o txt

\* the try body: a status of 400 or more is turned into a RuntimeError
TryBackend(backend) == IF backend = "ok" THEN "sent" ELSE "raise"

\* the log write's exception leaves the handler
InnerExceptReraises(r) == r

\* "except Exception: pass" around the log write
InnerExcept(r) == IF r = "raise" THEN "pass" ELSE r

\* how _emit_final ends once the backend has answered
EmitFinalResult(backend, logw) ==
    IF TryBackend(backend) = "sent" THEN "sent" ELSE InnerExcept(logw)

\* the (speaker, curr) item the for loop is at
TickItem == Head(tick[3])
TickPrev == DictGet(emitted_last_by_speaker, TickItem.spk, <<>>)
TickDelta == Delta(TickPrev, TickItem.text)

\* the item's delta gets past the length test and the dedup gate
Sends ==
    /\ Emits(TickDelta)
    /\ Strip(TickDelta) # <<>>
    /\ ~Dropped(LAST_SENT, DedupeKey(Strip(TickItem.spk), Strip(TickDelta)), now)

\* _emit_final up to urlopen: the dedup record is made, the line is
\* printed, the request leaves
PostBeginStep ==
    /\ tick[1] = "emit"
    /\ tick[3] # <<>>
    /\ post = <<>>
    /\ Sends
    /\ LET spk == Strip(TickItem.spk)
           txt == Strip(TickDelta)
       IN  /\ LAST_SENT' = Pruned(DictPut(LAST_SENT, DedupeKey(spk, txt), now), now)
           /\ post' = [spk |-> spk, text |-> txt, ts |-> tick[2], at |-> now,
                       line |-> Line(spk, txt, now)]
           /\ lastOp' = Op("post", TickItem.spk, TickItem.text, <<TickPrev, TickDelta>>)
    /\ UNCHANGED <<now, curr_by_speaker, emitted_last_by_speaker, last_caption_time,
                   sink, captions_log, tick, nCaptions, nTicks>>

\* the backend answers (or urlopen gives up); _emit_final falls back to the
\* log, returns, and the for loop goes on
PostEndStep(backend, logw) ==
    /\ post # <<>>
    /\ LET result == EmitFinalResult(backend, logw)
       IN  /\ sink' = IF result = "sent"
                      THEN Append(sink, [spk |-> post.spk, text |-> post.text,
                                         ts |-> post.ts, at |-> post.at])
                      ELSE sink
           /\ captions_log' = IF result = "written"
                              THEN Append(captions_log, post.line)
                              ELSE captions_log
           /\ IF result = "raise"
              THEN /\ tick' = <<"dead">>
                   /\ UNCHANGED emitted_last_by_speaker
              ELSE /\ tick' = <<"emit", tick[2], Tail(tick[3])>>
                   /\ emitted_last_by_speaker' =
                          DictPut(emitted_last_by_speaker, TickItem.spk, TickItem.text)
           /\ lastOp' = Op("post_end", TickItem.spk, TickItem.text, <<backend, logw>>)
    /\ post' = <<>>
    /\ UNCHANGED <<now, curr_by_speaker, LAST_SENT, last_caption_time, nCaptions, nTicks>>

\* the wall clock moves while urlopen waits, for PostTimeout at most
WaitStep ==
    /\ post # <<>>
    /\ now - post.at < PostTimeout
    /\ ClockStep
    /\ UNCHANGED <<curr_by_speaker, emitted_last_by_speaker, LAST_SENT, last_caption_time,
                   sink, captions_log, tick, nCaptions, nTicks, post>>

TickSink ==
    /\ now < MaxSinkTime
    /\ post = <<>>
    /\ ClockEmitStep
    /\ UNCHANGED <<segVars, obsVars, nUpdates, callVars>>

CaptionSink(speaker, text) ==
    /\ nCaptions < MaxSinkCaptions
    /\ OnCaptionStep(speaker, text)
    /\ UNCHANGED <<segVars, obsVars, nUpdates, callVars>>

WakeSink ==
    /\ nTicks < MaxSinkTicks
    /\ WakeStep
    /\ UNCHANGED <<segVars, obsVars, nUpdates, callVars>>

\* an item that sends nothing: the whole iteration
SkipSink ==
    /\ post = <<>>
    /\ tick[1] = "emit"
    /\ tick[3] # <<>>
    /\ ~Sends
    /\ EmitOneStep
    /\ UNCHANGED <<segVars, obsVars, nUpdates, callVars>>

PostBegin ==
    /\ PostBeginStep
    /\ UNCHANGED <<segVars, obsVars, nUpdates, lock, upd, fl, session, event_ts, out, fn, app>>

Wait ==
    /\ now < MaxSinkTime
    /\ WaitStep
    /\ UNCHANGED <<segVars, obsVars, nUpdates, lock, upd, fl, session, event_ts, out, fn, app>>

PostEnd(backend, logw) ==
    /\ PostEndStep(backend, logw)
    /\ UNCHANGED <<segVars, obsVars, nUpdates, lock, upd, fl, session, event_ts, out, fn, app>>

NextSink ==
    \/ TickSink
    \/ \E speaker \in CaptionSpeakers, text \in SinkTexts : CaptionSink(speaker, text)
    \/ WakeSink
    \/ SkipSink
    \/ PostBegin
    \/ Wait
    \/ \E backend \in BackendOutcomes, logw \in LogOutcomes : PostEnd(backend, logw)
    \/ Sleep

SpecSink == InitOneMode /\ [][NextSink]_vars

(***************************************************************************)
(* SpecLock: update() and flush_ready() as two tasks, each call taken      *)
(* step by step around "async with self._lock".  The body under the lock   *)
(* is a read of the shared state followed by the write of what update() or *)
(* flush_ready() computes from it.                                         *)
(***************************************************************************)
LockTexts == {Empty, Hello, Goodbye}

\* the rest of the program stands still
LockFrame ==
    UNCHANGED <<merge_consecutive, nUpdates, obsVars, emitVars, post, captions_log, session,
                event_ts, out, fn, app>>

\* the lock taken whoever holds it
FreeAlways(l) == TRUE

\* asyncio.Lock: acquire() goes through when nobody holds the lock
Free(l) == l = ""

\* what a call reads of the shared state once inside the lock
Shared == [segments |-> segments, completed |-> completed]

\* update(speaker, text, ts) is called: the early return, then time.time()
UpdateCall(speaker, text) ==
    /\ nUpdates < MaxLockEvents
    /\ upd = <<>>
    /\ nUpdates' = nUpdates + 1
    /\ IF Ignored(text)
       THEN /\ lastOp' = Op("update", speaker, text, <<>>)
            /\ UNCHANGED upd
       ELSE /\ upd' = [pc |-> "acquire", spk |-> speaker, text |-> text, now |-> now]
            /\ UNCHANGED lastOp
    /\ UNCHANGED <<now, merge_consecutive, segments, completed, lock, fl,
                   obsVars, emitVars, post, captions_log, session, event_ts, out, fn, app>>

\* update(): async with self._lock
UpdateAcquire ==
    /\ upd # <<>>
    /\ upd.pc = "acquire"
    /\ Free(lock)
    /\ lock' = "update"
    /\ upd' = [pc |-> "body", spk |-> upd.spk, text |-> upd.text, now |-> upd.now,
               seen |-> Shared]
    /\ UNCHANGED <<now, segments, completed, lastOp, fl>>
    /\ LockFrame

\* update(): the body, and the lock released on leaving the with block
UpdateBody ==
    /\ upd # <<>>
    /\ upd.pc = "body"
    /\ LET r == UpdateSeg(upd.seen.segments, upd.seen.completed, merge_consecutive,
                          upd.spk, upd.text, upd.now)
       IN  /\ segments' = r.segments
           /\ completed' = r.completed
    /\ lock' = ""
    /\ upd' = <<>>
    /\ lastOp' = Op("update", upd.spk, upd.text, <<>>)
    /\ UNCHANGED <<now, fl>>
    /\ LockFrame

\* flush_ready() is called: now = time.time(); to_flush = []
FlushCall ==
    /\ fl = <<>>
    /\ fl' = [pc |-> "acquire", now |-> now]
    /\ UNCHANGED <<now, segments, completed, lastOp, lock, upd>>
    /\ LockFrame

\* flush_ready(): async with self._lock
FlushAcquire ==
    /\ fl # <<>>
    /\ fl.pc = "acquire"
    /\ Free(lock)
    /\ lock' = "flush_ready"
    /\ fl' = [pc |-> "body", now |-> fl.now, seen |-> Shared]
    /\ UNCHANGED <<now, segments, completed, lastOp, upd>>
    /\ LockFrame

\* flush_ready(): the body, and the lock released on leaving the with block
FlushBody ==
    /\ fl # <<>>
    /\ fl.pc = "body"
    /\ completed' = RemainingCompleted(fl.seen.completed, fl.now)
    /\ segments' = RemainingSegments(fl.seen.segments, fl.now)
    /\ lock' = ""
    /\ fl' = [pc |-> "return", now |-> fl.now,
              to_flush |-> ToFlush(fl.seen.segments, fl.seen.completed, fl.now)]
    /\ UNCHANGED <<now, lastOp, upd>>
    /\ LockFrame

\* flush_ready(): return to_flush
FlushReturn ==
    /\ fl # <<>>
    /\ fl.pc = "return"
    /\ lastOp' = Op("flush_ready", "", <<>>, fl.to_flush)
    /\ fl' = <<>>
    /\ UNCHANGED <<now, segments, completed, lock, upd>>
    /\ LockFrame

TickLock ==
    /\ now < MaxLockTime
    /\ now' = now + 1
    /\ UNCHANGED <<segments, completed, lastOp, lock, upd, fl>>
    /\ LockFrame

NextLock ==
    \/ TickLock
    \/ \E text \in LockTexts : UpdateCall(RunSpeaker, text)
    \/ UpdateAcquire
    \/ UpdateBody
    \/ FlushCall
    \/ FlushAcquire
    \/ FlushBody
    \/ FlushReturn

SpecLock == Init /\ [][NextLock]_vars

(***************************************************************************)
(* SpecEnd: the caption observer until and after the end of the meeting.   *)
(* _monitor_meeting_end and _monitor_alone_and_leave close the page's      *)
(* context and return; the tasks of _attach_caption_observer are never     *)
(* cancelled and test no flag.                                             *)
(***************************************************************************)
EndTexts == {Hi, HiHi}

TickEnd ==
    /\ now < MaxEndTime
    /\ ClockEmitStep
    /\ UNCHANGED <<segVars, obsVars, nUpdates, callVars>>

\* onCaption is called from the page: only while the page is open
CaptionEnd(speaker, text) ==
    /\ session = "live"
    /\ nCaptions < MaxEndCaptions
    /\ OnCaptionStep(speaker, text)
    /\ UNCHANGED <<segVars, obsVars, nUpdates, callVars>>

\* _emit_periodic: "while True", whatever has become of the page
WakeEnd ==
    /\ nTicks < MaxEndTicks
    /\ WakeStep
    /\ UNCHANGED <<segVars, obsVars, nUpdates, callVars>>

\* a monitor sees the meeting over: _emit_state("ended"), page.context.close(), return
SessionEnd ==
    /\ session = "live"
    /\ tick = <<"sleep">>
    /\ session' = "ended"
    /\ lastOp' = Op("ended", "", <<>>, <<>>)
    /\ UNCHANGED <<now, segVars, obsVars, nUpdates, emitVars, post, captions_log,
                   lock, upd, fl, event_ts, out, fn, app>>

NextEnd ==
    \/ TickEnd
    \/ \E text \in EndTexts : CaptionEnd(Al, text)
    \/ WakeEnd
    \/ EmitOne
    \/ Sleep
    \/ SessionEnd

SpecEnd == InitOneMode /\ [][NextEnd]_vars

(***************************************************************************)
(* SpecStamp: the segmenter fed events whose ts is the time the caption    *)
(* was seen, at or before the moment update() runs.                        *)
(***************************************************************************)
StampTexts == {Hello, HelloWorld, Goodbye}

TickStamp ==
    /\ now < MaxStampTime
    /\ ClockStep
    /\ UNCHANGED <<obsVars, emitVars, callVars>>

\* update(speaker, text, ts) with the ts the caller passes kept on record
UpdateStamp(text, ts) ==
    /\ nUpdates < MaxStampEvents
    /\ UpdateStep(RunSpeaker, text, ts)
    /\ event_ts' = ts
    /\ UNCHANGED <<obsVars, emitVars, post, captions_log, lock, upd, fl, session, out, fn, app>>

FlushStamp ==
    /\ FlushStep
    /\ UNCHANGED <<obsVars, emitVars, callVars>>

NextStamp ==
    \/ TickStamp
    \/ \E text \in StampTexts, ts \in 0..now : UpdateStamp(text, ts)
    \/ FlushStamp

SpecStamp == Init /\ [][NextStamp]_vars

(***************************************************************************)
(* SpecOrder: the segmenter fed by one speaker, with the lists returned by *)
(* flush_ready() kept one after the other, as the transport receives them. *)
(***************************************************************************)
OrderTexts == {Blank, Hello, Goodbye}

TickOrder ==
    /\ now < MaxOrderTime
    /\ ClockStep
    /\ UNCHANGED <<obsVars, emitVars, callVars>>

UpdateOrder(text, ts) ==
    /\ nUpdates < MaxOrderEvents
    /\ UpdateStep(RunSpeaker, text, ts)
    /\ UNCHANGED <<obsVars, emitVars, callVars>>

FlushOrder ==
    /\ FlushStep
    /\ out' = out \o ToFlush(segments, completed, now)
    /\ UNCHANGED <<obsVars, emitVars, post, captions_log, lock, upd, fl, session,
                   event_ts, fn, app>>

NextOrder ==
    \/ TickOrder
    \/ \E text \in OrderTexts, ts \in {0, now} : UpdateOrder(text, ts)
    \/ FlushOrder

SpecOrder == Init /\ [][NextOrder]_vars

(***************************************************************************)
(* SpecText: the text helpers called on their own, on every short string   *)
(* over a few characters (a letter in each case, a digit, punctuation,     *)
(* two kinds of whitespace).                                               *)
(***************************************************************************)
NormChars == {"a", "B", "1", "-", " ", "\t"}

\* every string over chars of at most n characters
Strings(chars, n) == UNION {[1..k -> chars] : k \in 0..n}

\* a missing argument
None == <<"None">>

\* (s or "")
OrEmpty(s) == IF s = None THEN <<>> ELSE s

\* _norm(s)
NormCall(s) ==
    /\ fn = <<>>
    /\ fn' = [f |-> "_norm", args |-> <<s>>, ret |-> Norm(OrEmpty(s))]
    /\ UNCHANGED <<app, now, segVars, nUpdates, lastOp, obsVars, emitVars, post, captions_log,
                   lock, upd, fl, session, event_ts, out>>


\* a caption longer than the tail window, and a later caption that repeats
\* its end in the middle of other words
ShipFriday ==
    <<"o","k"," ","w","e"," ","s","h","i","p"," ","t","h","e"," ","p","l",
      "a","n"," ","o","n"," ","f","r","i","d","a","y">>
WaitShipFriday ==
    <<"n","o"," ","w","a","i","t",","," "," ","s","h","i","p"," ","t","h",
      "e"," ","p","l","a","n"," ","o","n"," ","f","r","i","d","a","y"," ",
      "i","s"," ","w","h","a","t"," ","z","e","d"," ","s","a","i","d",",",
      " ","q","u","i","t","e">>

MergeChars == {"a", "-", " "}

\* the (prev, curr) pairs _should_merge is called with
MergePairs ==
    (Strings(MergeChars, MaxMergeLen) \X Strings(MergeChars, MaxMergeLen))
    \cup {<<ShipFriday, WaitShipFriday>>, <<WaitShipFriday, ShipFriday>>}

\* _should_merge(prev, curr)
ShouldMergeCall(prev, curr) ==
    /\ fn = <<>>
    /\ fn' = [f |-> "_should_merge", args |-> <<prev, curr>>, ret |-> ShouldMerge(prev, curr)]
    /\ UNCHANGED <<app, now, segVars, nUpdates, lastOp, obsVars, emitVars, post, captions_log,
                   lock, upd, fl, session, event_ts, out>>

PrefixChars == {"a", "B", " "}

\* a caption and its later snapshot with one word changed
HiBob == <<"H","i"," ","b","o","b">>
HiRobSaid == <<"h","i"," ","r","o","b"," ","s","a","i","d">>

\* texts as the emitter holds them: stripped and not empty
PrefixTexts == {s \in Strings(PrefixChars, MaxPrefixLen) : s # <<>> /\ Strip(s) = s}

\* the (prev, curr) pairs _prefix_len is called with
PrefixPairs == (PrefixTexts \X PrefixTexts) \cup {<<HiBob, HiRobSaid>>}

\* _prefix_len(prev, curr) and the delta cut at its result
PrefixLenCall(prev, curr) ==
    /\ fn = <<>>
    /\ fn' = [f |-> "_prefix_len", args |-> <<prev, curr>>, ret |-> PrefixLen(prev, curr)]
    /\ out' = Delta(prev, curr)
    /\ UNCHANGED <<app, now, segVars, nUpdates, lastOp, obsVars, emitVars, post, captions_log,
                   lock, upd, fl, session, event_ts>>

NextText ==
    \/ \E s \in Strings(NormChars, MaxNormLen) \cup {None} : NormCall(s)
    \/ \E pair \in MergePairs : ShouldMergeCall(pair[1], pair[2])
    \/ \E pair \in PrefixPairs : PrefixLenCall(pair[1], pair[2])

SpecText == InitOneMode /\ [][NextText]_vars

(***************************************************************************)
(* SpecGate: _emit_final called on its own, with speaker labels and texts  *)
(* that may hold the "|" of the dedup key.                                 *)
(***************************************************************************)
GateSpeakers == {<<"a">>, <<"a", "|", "b">>}
GateTexts == {<<"c">>, <<"b", "|", "c">>}

\* what one call of _emit_final did
GateOutcome(ls, speaker, text, t) ==
    IF Strip(text) = <<>> THEN "empty"
    ELSE IF Dropped(ls, DedupeKey(Strip(speaker), Strip(text)), t) THEN "dropped"
    ELSE "sent"

TickGate ==
    /\ now < MaxGateTime
    /\ ClockEmitStep
    /\ UNCHANGED <<segVars, obsVars, nUpdates, callVars>>

\* await _emit_final(speaker, text, now)
EmitFinalCall(speaker, text) ==
    LET r == EmitFinal(LAST_SENT, sink, speaker, text, now, now)
    IN  /\ nCaptions < MaxGateCalls
        /\ nCaptions' = nCaptions + 1
        /\ LAST_SENT' = r.last_sent
        /\ sink' = r.sink
        /\ lastOp' = Op("emit_final", speaker, text, GateOutcome(LAST_SENT, speaker, text, now))
        /\ UNCHANGED <<now, curr_by_speaker, emitted_last_by_speaker, last_caption_time,
                       tick, nTicks>>
        /\ UNCHANGED <<segVars, obsVars, nUpdates, callVars>>

NextGate ==
    \/ TickGate
    \/ \E speaker \in GateSpeakers, text \in GateTexts : EmitFinalCall(speaker, text)

SpecGate == InitOneMode /\ [][NextGate]_vars

(***************************************************************************)
(* SpecPrune: _emit_final called late in a long meeting, LAST_SENT holding *)
(* about 5000 keys of one speaker.                                         *)
(***************************************************************************)
Digits == <<"0","1","2","3","4","5","6","7","8","9">>
DigitValue(ch) == CHOOSE d \in 0..9 : Digits[d + 1] = ch

\* the text of the i-th caption of the meeting: four digits
NumberedText(i) ==
    <<Digits[((i \div 1000) % 10) + 1], Digits[((i \div 100) % 10) + 1],
      Digits[((i \div 10) % 10) + 1], Digits[(i % 10) + 1]>>

Talker == <<"s">>

\* when a key was recorded: the keys whose third digit is 0 within the last
\* ten seconds before t, the others in the first ten seconds of the meeting
RecordedAt(key, t) ==
    IF key[Len(key) - 1] = "0" THEN t - DigitValue(key[Len(key)])
    ELSE DigitValue(key[Len(key)])

\* LAST_SENT after n captions, seen at time t
LongTable(n, t) ==
    [key \in {DedupeKey(Talker, NumberedText(i)) : i \in 0..(n - 1)} |-> RecordedAt(key, t)]

\* a caption never seen, one recorded at time 5 when the table is long, one
\* recorded at time t
PruneTexts == {<<"n", "e", "w">>, NumberedText(15), NumberedText(0)}

\* await _emit_final(Talker, text, t) with LAST_SENT = LongTable(n, t)
PruneCall(n, t, text) ==
    /\ fn = <<>>
    /\ LET table == LongTable(n, t)
       IN  fn' = [f |-> "_emit_final", args |-> <<n, t, text>>, table |-> table,
                  ret |-> EmitFinal(table, <<>>, Talker, text, t, t).last_sent]
    /\ UNCHANGED <<app, now, segVars, nUpdates, lastOp, obsVars, emitVars, post, captions_log,
                   lock, upd, fl, session, event_ts, out>>

\* the number of keys in LAST_SENT: a few, or about the size limit
PruneSizes == 0..MaxPruneSmall \cup (LastSentLimit - 1)..(LastSentLimit + 1)

NextPrune ==
    \/ \E n \in PruneSizes,
          t \in (LastSentKeep - MaxPruneSpan)..(LastSentKeep + MaxPruneSpan),
          text \in PruneTexts : PruneCall(n, t, text)

SpecPrune == InitOneMode /\ [][NextPrune]_vars

(***************************************************************************)
(* SpecLive: one speaker, incremental mode; the clock and flush_ready()    *)
(* are never held back for ever, and update() is called only while the     *)
(* clock leaves a new draft the time to come out.                          *)
(***************************************************************************)
LiveTexts == {Blank, Hello, Goodbye}

TickLive ==
    /\ now < MaxLiveTime
    /\ ClockStep
    /\ UNCHANGED <<obsVars, emitVars, callVars>>

UpdateLive(text) ==
    /\ nUpdates < MaxLiveEvents
    /\ now + max_segment_seconds <= MaxLiveTime
    /\ UpdateStep(RunSpeaker, text, now)
    /\ UNCHANGED <<obsVars, emitVars, callVars>>

FlushLive ==
    /\ FlushStep
    /\ UNCHANGED <<obsVars, emitVars, callVars>>

NextLive ==
    \/ TickLive
    \/ \E text \in LiveTexts : UpdateLive(text)
    \/ FlushLive

SpecLive ==
    InitOneMode /\ [][NextLive]_vars /\ WF_vars(TickLive) /\ WF_vars(FlushLive)

(***************************************************************************)
(* SpecApp: the backend's handlers for one bot session, a bounded number   *)
(* of requests arriving in any order.  A handler runs without interruption *)
(* between two awaits that suspend; the lock of AppState is never held     *)
(* across an await, so acquiring it does not suspend.                      *)
(***************************************************************************)
AppTexts == {<<" ">>, <<"G", "O">>, <<"g", "o", " ", "n", "o">>, <<"x">>}
AppStates == {"running", "ended"}

Request(a) == [a EXCEPT !.nCalls = @ + 1]

AppUnchanged ==
    UNCHANGED <<now, segVars, nUpdates, obsVars, emitVars, post, captions_log,
                lock, upd, fl, session, event_ts, out, fn>>

\* POST /captions up to add_utterance and the auto reply
ReceiveCaption(text) ==
    /\ app.nCalls < MaxAppCalls
    /\ app' = IF Strip(text) = <<>> THEN Request(app)
              ELSE [Request(app) EXCEPT !.captions = Append(@, text)]
    /\ lastOp' = Op("receive_caption", "", text, <<>>)
    /\ AppUnchanged

\* POST /captions from the keyword trigger on, for a caption received before
KeywordTrigger(i) ==
    /\ app' = MaybeTrigger([app EXCEPT !.captions =
                                SubSeq(@, 1, i - 1) \o SubSeq(@, i + 1, Len(@))],
                           app.captions[i])
    /\ lastOp' = Op("keyword_trigger", "", app.captions[i], <<>>)
    /\ AppUnchanged

\* POST /bots/{bot_id}/chat
BotSendChat ==
    /\ app.nCalls < MaxAppCalls
    /\ app' = EnqueueChat(Request(app), <<"h", "i">>, "api").app
    /\ lastOp' = Op("bot_send_chat", "", <<"h", "i">>, <<>>)
    /\ AppUnchanged

\* GET /bots/{bot_id}/commands/next with a command waiting
BotNextCommand ==
    /\ app.has_queue
    /\ app.queue # <<>>
    /\ app' = [app EXCEPT !.queue = Tail(@)]
    /\ lastOp' = Op("bot_next_command", "", <<>>, <<>>)
    /\ AppUnchanged

\* POST /bots/{bot_id}/state
SetBotState(state) ==
    /\ app.nCalls < MaxAppCalls
    /\ app' = SetState(Request(app), state)
    /\ lastOp' = Op("set_bot_state", "", <<>>, <<>>)
    /\ AppUnchanged

\* DELETE /schedule-bot/{bot_id}
RemoveBot(graceful) ==
    /\ app.nCalls < MaxAppCalls
    /\ app' = StopBotProcess(SetState(Request(app), "ended"), graceful)
    /\ lastOp' = Op("remove_bot", "", <<>>, <<>>)
    /\ AppUnchanged

\* POST /bots/{bot_id}/finalize, the handler registered first
FinalizeBot(graceful) ==
    /\ app.nCalls < MaxAppCalls
    /\ app' = StopBotProcess(SetState(Request(app), "ended"), graceful)
    /\ lastOp' = Op("finalize_bot", "", <<>>, <<>>)
    /\ AppUnchanged

\* the bot process exits by itself
ProcessExit ==
    /\ app.proc = "running"
    /\ app' = [app EXCEPT !.proc = "exited"]
    /\ lastOp' = Op("process_exit", "", <<>>, <<>>)
    /\ AppUnchanged

\* _watch_bot_exit(bot_id): proc.poll() is not None
WatchBotExit ==
    /\ app.watcher = "polling"
    /\ app.proc = "exited"
    /\ app' = [SetState(app, "ended") EXCEPT !.watcher = "done"]
    /\ lastOp' = Op("watch_bot_exit", "", <<>>, <<>>)
    /\ AppUnchanged

NextApp ==
    \/ \E text \in AppTexts : ReceiveCaption(text)
    \/ \E i \in DOMAIN app.captions : KeywordTrigger(i)
    \/ BotSendChat
    \/ BotNextCommand
    \/ \E state \in AppStates : SetBotState(state)
    \/ \E graceful \in BOOLEAN : RemoveBot(graceful)
    \/ \E graceful \in BOOLEAN : FinalizeBot(graceful)
    \/ ProcessExit
    \/ WatchBotExit

SpecApp == InitOneMode /\ [][NextApp]_vars

(***************************************************************************)
(* Properties of the segmenter, one speaker.                               *)
(***************************************************************************)
\* the utterance flush_ready() returns for the run's last event
LastUtterance == Utterance(RunSpeaker, Strip(run.text), run.last)

\* every event so far extends the previous one, the events are less than
\* idle_seconds apart and within the revision window, and the run is
\* shorter than max_segment_seconds
Revising ==
    /\ run.n >= 1
    /\ run.chain
    /\ run.gap < idle_seconds
    /\ run.gap <= revision_window_seconds
    /\ run.last - run.first < max_segment_seconds

\* C1: a run of prefix-extending events, less than idle_seconds apart and
\* shorter than max_segment_seconds, yields at most one utterance, that
\* utterance carries the last text of the run, and it has been returned by
\* any flush_ready() made idle_seconds or more after the last event.
C1_RevisionCollapsing ==
    Revising =>
        /\ nOut <= 1
        /\ nOut = 1 => since = <<LastUtterance>>
        /\ (lastOp.op = "flush_ready" /\ now - run.last >= idle_seconds) => nOut = 1

\* "Hello", "Hello wor", "Hello world" one second apart, flushed once idle
C1_Witness ==
    /\ Revising
    /\ run.n = 3
    /\ run.first < run.last
    /\ run.text = HelloWorld
    /\ lastOp.op = "flush_ready"
    /\ since = <<Utterance(RunSpeaker, HelloWorld, run.last)>>
    /\ nOut = 1

\* the draft a force split retires, and what update() queues for it
CutEntry == Utterance(RunSpeaker, SegmentText(run.cut[1]), run.cut[1].updated_at)

\* the last Len(tl) elements of s are tl
EndsWith(s, tl) ==
    Len(s) >= Len(tl) /\ SubSeq(s, Len(s) - Len(tl) + 1, Len(s)) = tl

\* an update() step that finds a live draft last updated more than
\* force_split_gap_seconds ago
ForceSplitStep ==
    /\ lastOp'.op = "update"
    /\ ~Ignored(lastOp'.text)
    /\ HasSeg(segments, RunSpeaker)
    /\ now - GetSeg(segments, RunSpeaker).updated_at > force_split_gap_seconds

\* once idle_seconds have passed since an event that force-split a draft
\* and flush_ready() has run, the utterances returned since that event end
\* with the old draft's text (when it was queued) and then the new text
FlushedApart ==
    (lastOp.op = "flush_ready" /\ run.cut # <<>> /\ now - run.last >= idle_seconds) =>
        EndsWith(since, (IF CutEntry.text # <<>> THEN <<CutEntry>> ELSE <<>>)
                        \o <<LastUtterance>>)

\* C2 as amended: an event that comes more than force_split_gap_seconds after
\* the draft's last update replaces the draft by a fresh one holding only the
\* new text, whatever _should_merge says, and queues the old draft's full
\* text when that text is not empty after trimming; the old text (when
\* queued) and the new text are then returned as separate utterances.
C2_ForceSplit ==
    /\ [][ ForceSplitStep =>
               LET old == GetSeg(segments, RunSpeaker)
                   full == SegmentText(old)
               IN  /\ segments' = <<Segment(RunSpeaker, <<>>, lastOp'.text, now, now)>>
                   /\ completed' = IF full # <<>>
                                   THEN Append(completed,
                                               Utterance(RunSpeaker, full, old.updated_at))
                                   ELSE completed
         ]_vars
    /\ []FlushedApart

\* "Hello", a long silence, "Hello world" (a prefix-extension): two utterances
C2_Witness ==
    /\ run.n = 2
    /\ run.cut # <<>>
    /\ run.text = HelloWorld
    /\ lastOp.op = "flush_ready"
    /\ since = <<Utterance(RunSpeaker, Hello, run.first),
                 Utterance(RunSpeaker, HelloWorld, run.last)>>

\* C2 as stated: the old draft is always queued with its full text, and the
\* old and the new text come out as two separate utterances.
C2_AlwaysQueued ==
    [][ /\ ForceSplitStep =>
            LET old == GetSeg(segments, RunSpeaker)
            IN  /\ segments' = <<Segment(RunSpeaker, <<>>, lastOp'.text, now, now)>>
                /\ completed' = Append(completed,
                                       Utterance(RunSpeaker, SegmentText(old),
                                                 old.updated_at))
        /\ (lastOp'.op = "flush_ready" /\ run'.cut # <<>>
              /\ now' - run'.last >= idle_seconds) =>
            EndsWith(since', <<CutEntry', LastUtterance'>>)
      ]_vars

\* an update() step that keeps the draft alive: revision merge, incremental
\* overwrite or grouped fold
KeepAliveStep ==
    /\ lastOp'.op = "update"
    /\ ~Ignored(lastOp'.text)
    /\ HasSeg(segments, RunSpeaker)
    /\ LET seg == GetSeg(segments, RunSpeaker)
           gap == now - seg.updated_at
           merge == Merges(seg.frag, lastOp'.text)
       IN  /\ gap <= force_split_gap_seconds
           /\ \/ gap <= revision_window_seconds /\ merge
              \/ /\ ~(gap > revision_window_seconds /\ ~merge)
                 /\ merge_consecutive => gap <= merge_gap_seconds

JoinTwo(a, b) == IF a = <<>> THEN b ELSE IF b = <<>> THEN a ELSE a \o <<" ">> \o b

RECURSIVE JoinTexts(_)
\* the texts of a list of utterances, joined by single spaces
JoinTexts(us) ==
    IF us = <<>> THEN <<>> ELSE JoinTwo(us[1].text, JoinTexts(Tail(us)))

\* C7: once idle_seconds have passed since a speaker's last event and
\* flush_ready() has run, the utterances returned since that event are not
\* empty and their concatenation contains the text of that event (as
\* _segment_text materialises it, i.e. trimmed).
C7_NoContentLoss ==
    (lastOp.op = "flush_ready" /\ run.n >= 1 /\ now - run.last >= idle_seconds) =>
        /\ since # <<>>
        /\ Contains(JoinTexts(since), Strip(run.text))

\* three unrelated events, then the idle period and a flush
C7_Witness ==
    /\ lastOp.op = "flush_ready"
    /\ run.n = 3
    /\ ~run.chain
    /\ run.text = Goodbye
    /\ now - run.last >= idle_seconds
    /\ Len(since) >= 2
    /\ since[Len(since)].text = Goodbye

(***************************************************************************)
(* Properties of the segmenter, two speakers.                              *)
(***************************************************************************)
RECURSIVE Joins(_, _)
\* the texts _segment_text can build from at most n fragments taken from S
Joins(S, n) ==
    IF n = 0 THEN {<<>>}
    ELSE LET shorter == Joins(S, n - 1)
         IN  shorter \cup {JoinTwo(a, Strip(x)) : a \in shorter, x \in S}

BuiltFrom == [s \in Speakers |-> Joins(SaidBy(s), MaxPairEvents)]

\* C6: update() for one speaker leaves every other speaker's draft and every
\* entry of the completed queue as they were, and every utterance
\* flush_ready() returns for a speaker is built from texts of that speaker's
\* own events only.
C6_SpeakerIsolation ==
    [][ /\ lastOp'.op = "update" =>
            /\ Len(segments') >= Len(segments)
            /\ \A i \in DOMAIN segments :
                   segments[i].spk # lastOp'.spk => segments'[i] = segments[i]
            /\ Len(completed') >= Len(completed)
            /\ SubSeq(completed', 1, Len(completed)) = completed
            /\ \A i \in DOMAIN completed' :
                   i > Len(completed) => completed'[i].spk = lastOp'.spk
        /\ lastOp'.op = "flush_ready" =>
            \A i \in DOMAIN lastOp'.ret :
                lastOp'.ret[i].text \in BuiltFrom[lastOp'.ret[i].spk]
      ]_vars

\* Bob's event arrives while Alice has a draft and a queued segment
C6_Witness ==
    /\ lastOp.op = "update"
    /\ lastOp.spk = "Bob"
    /\ HasSeg(segments, "Alice")
    /\ HasSeg(segments, "Bob")
    /\ \E i \in DOMAIN completed : completed[i].spk = "Alice"

\* at most one live draft per speaker
OneDraftPerSpeaker ==
    \A i, j \in DOMAIN segments : segments[i].spk = segments[j].spk => i = j

\* the utterance a draft is returned or queued as
AsUtterance(d) == Utterance(d.spk, SegmentText(d), d.updated_at)

\* the draft d of this state is no longer in the map in the next state
Gone(d) == ~HasSeg(segments', d.spk)

\* the draft d of this state has been replaced by a fresh draft
Replaced(d) ==
    HasSeg(segments', d.spk) /\ GetSeg(segments', d.spk).started_at # d.started_at

\* C8 as amended: at most one live draft per speaker; a draft leaves the map
\* exactly when flush_ready() returns it, and it is replaced only by an
\* update() of its own speaker, which appends its text to the completed
\* queue when that text is not empty after trimming (a whitespace-only draft
\* is replaced without being queued).
C8_DraftRetirement ==
    [][ /\ OneDraftPerSpeaker'
        /\ \A i \in DOMAIN segments :
               LET d == segments[i]
               IN  /\ Gone(d) <=> (lastOp'.op = "flush_ready"
                                     /\ AsUtterance(d) \in Range(lastOp'.ret))
                   /\ Replaced(d) =>
                          /\ lastOp'.op = "update"
                          /\ lastOp'.spk = d.spk
                          /\ completed' = IF SegmentText(d) # <<>>
                                          THEN Append(completed, AsUtterance(d))
                                          ELSE completed
      ]_vars

\* an update() has just split off its speaker's draft and queued its text,
\* while the other speaker's draft lives on
C8_Witness ==
    /\ lastOp.op = "update"
    /\ HasSeg(segments, "Alice")
    /\ HasSeg(segments, "Bob")
    /\ GetSeg(segments, lastOp.spk) = Segment(lastOp.spk, <<>>, lastOp.text, now, now)
    /\ completed # <<>>
    /\ completed[Len(completed)].spk = lastOp.spk
    /\ completed[Len(completed)].t < now

\* C8 as stated: a draft is never removed or replaced without its text being
\* returned or appended to the completed queue.
C8_AlwaysQueued ==
    [][ /\ OneDraftPerSpeaker'
        /\ \A i \in DOMAIN segments :
               LET d == segments[i]
               IN  /\ Gone(d) <=> (lastOp'.op = "flush_ready"
                                     /\ AsUtterance(d) \in Range(lastOp'.ret))
                   /\ Replaced(d) =>
                          /\ lastOp'.op = "update"
                          /\ lastOp'.spk = d.spk
                          /\ completed' = Append(completed, AsUtterance(d))
      ]_vars
(***************************************************************************)
(* Properties of the caption observer.                                     *)
(***************************************************************************)
\* the (speaker, text) pair of sink line i went out less than
\* DEDUP_WINDOW_SECONDS before time t
SentWithin(snk, spk, txt, t) ==
    \E i \in DOMAIN snk :
        snk[i].spk = spk /\ snk[i].text = txt /\ t - snk[i].at < DEDUP_WINDOW_SECONDS

\* C4: of two hand-overs of the same (speaker, text) pair to _emit_final less
\* than DEDUP_WINDOW_SECONDS apart only one reaches the sink: no two lines of
\* the sink with the same speaker and text are less than the window apart,
\* and the tick step whose delta went out less than the window ago leaves
\* the sink and LAST_SENT as they were.
C4_DedupIdempotence ==
    [][ /\ \A i, j \in DOMAIN sink' :
               (i < j /\ sink'[i].spk = sink'[j].spk /\ sink'[i].text = sink'[j].text)
                   => sink'[j].at - sink'[i].at >= DEDUP_WINDOW_SECONDS
        /\ (lastOp'.op = "emit"
              /\ SentWithin(sink, Strip(lastOp'.spk), Strip(lastOp'.ret[2]), now)) =>
            /\ sink' = sink
            /\ LAST_SENT' = LAST_SENT
      ]_vars

\* "Hi" went out, the snapshot grew to "Hi Hi", and the second "Hi" was
\* dropped less than the window later
C4_Witness ==
    /\ lastOp.op = "emit"
    /\ lastOp.text = HiHi
    /\ lastOp.ret = <<Hi, Hi>>
    /\ Len(sink) = 1
    /\ sink[1].text = Hi
    /\ now - sink[1].at < DEDUP_WINDOW_SECONDS
    /\ now > sink[1].at

\* the tick step handles a snapshot that extends the speaker's record of the
\* text last emitted
ExtendingStep ==
    /\ lastOp'.op = "emit"
    /\ DictGet(emitted_last_by_speaker, lastOp'.spk, <<>>) # <<>>
    /\ StartsWith(lastOp'.text, DictGet(emitted_last_by_speaker, lastOp'.spk, <<>>))

\* the snapshot after the recorded text: curr[len(prev):]
RawSuffix ==
    SubSeq(lastOp'.text, Len(DictGet(emitted_last_by_speaker, lastOp'.spk, <<>>)) + 1,
           Len(lastOp'.text))

\* the sink got one more line, for this speaker, with text txt
Emitted(txt) ==
    /\ Len(sink') = Len(sink) + 1
    /\ SubSeq(sink', 1, Len(sink)) = sink
    /\ sink'[Len(sink')].spk = lastOp'.spk
    /\ sink'[Len(sink')].text = txt

\* C5 as amended: when the new snapshot extends the text recorded as emitted,
\* the tick emits the suffix after the common prefix trimmed of surrounding
\* whitespace ("to ship" for "The plan is" -> "The plan is to ship"),
\* provided the trimmed suffix has at least two characters and was not sent
\* within the dedup window, and it emits nothing else: the prefix is not
\* sent again.
C5_DeltaCorrectness ==
    [][ ExtendingStep =>
            /\ sink' = sink \/ Emitted(Strip(RawSuffix))
            /\ (Len(Strip(RawSuffix)) >= 2
                  /\ ~SentWithin(sink, lastOp'.spk, Strip(RawSuffix), now))
                   => Emitted(Strip(RawSuffix))
      ]_vars

\* "The plan is" went out, then "to ship"
C5_Witness ==
    /\ lastOp.op = "emit"
    /\ lastOp.text = ThePlanIsToShip
    /\ Len(sink) = 2
    /\ sink[1].text = ThePlanIs
    /\ sink[2].text = <<"t","o"," ","s","h","i","p">>

\* C5 as stated: the emission is exactly the suffix of the snapshot after the
\* common prefix (" to ship").
C5_ExactSuffix ==
    [][ ExtendingStep =>
            /\ sink' = sink \/ Emitted(RawSuffix)
            /\ (Len(Strip(RawSuffix)) >= 2
                  /\ ~SentWithin(sink, lastOp'.spk, Strip(RawSuffix), now))
                   => Emitted(RawSuffix)
      ]_vars

C9_EmptyTextIgnored ==
    [][ ( \/ lastOp'.op = "update" /\ lastOp'.text = <<>>
          \/ lastOp'.op = "on_caption" /\ Strip(lastOp'.text) = <<>> ) =>
            /\ segments' = segments
            /\ completed' = completed
            /\ curr_by_speaker' = curr_by_speaker
            /\ emitted_last_by_speaker' = emitted_last_by_speaker
            /\ last_caption_time' = last_caption_time
            /\ LAST_SENT' = LAST_SENT
            /\ sink' = sink
      ]_vars

\* an update("") reaches a segmenter holding a draft, next to an observer
\* holding a snapshot
C9_Witness ==
    /\ lastOp.op = "update"
    /\ lastOp.text = <<>>
    /\ segments # <<>>
    /\ curr_by_speaker # <<>>

(***************************************************************************)
(* Properties of the sink.                                                 *)
(***************************************************************************)
\* the step on which _emit_final returns from its POST
PostEnds == post # <<>> /\ lastOp'.op = "post_end"

\* the backend took the line
Sent(ret) == ret[1] = "ok"

\* C11: when the POST of an utterance fails (urlopen raises, or the status
\* is 400 or more) _emit_final appends the line to the local log, and it
\* returns normally even when that write fails too: the for loop of
\* _emit_periodic goes on to the next item, and the dedup table and the
\* emitted snapshot are what a successful send leaves - the dedup record
\* made before the POST, the snapshot set to the current text.
C11_SinkFailureContained ==
    [][PostEnds =>
         /\ tick' = <<"emit", tick[2], Tail(tick[3])>>
         /\ LAST_SENT' = LAST_SENT
         /\ DictGet(LAST_SENT', DedupeKey(post.spk, post.text), -1) = post.at
         /\ emitted_last_by_speaker' =
                DictPut(emitted_last_by_speaker, TickItem.spk, TickItem.text)
         /\ IF Sent(lastOp'.ret)
            THEN /\ sink' = Append(sink, [spk |-> post.spk, text |-> post.text,
                                          ts |-> post.ts, at |-> post.at])
                 /\ captions_log' = captions_log
            ELSE /\ sink' = sink
                 /\ captions_log' = IF lastOp'.ret[2] = "written"
                                    THEN Append(captions_log, post.line)
                                    ELSE captions_log]_vars

\* a line lost by both the backend and the log, and the loop still running
C11_Witness ==
    /\ lastOp.op = "post_end"
    /\ lastOp.ret = <<"raise", "raise">>
    /\ sink = <<>>
    /\ captions_log = <<>>
    /\ tick[1] = "emit"
    /\ DictGet(emitted_last_by_speaker, lastOp.spk, <<>>) = lastOp.text
    /\ LAST_SENT # <<>>

\* C12: emission is fire-and-forget - the tick never waits for the sink's
\* answer: the clock moves only while no POST is being waited on, so the
\* remaining speakers of the tick and _on_caption are never held up by a
\* slow or failing sink.
C12_FireAndForget == [][now' # now => post = <<>>]_vars

(***************************************************************************)
(* Properties of the lock.                                                 *)
(***************************************************************************)
\* the call is inside "async with self._lock"
InBody(call) == call # <<>> /\ call.pc = "body"

\* the lock is held by exactly the call that is inside its with block
HeldByBody ==
    /\ InBody(upd) <=> lock = "update"
    /\ InBody(fl) <=> lock = "flush_ready"
    /\ ~(InBody(upd) /\ InBody(fl))

\* what a call read under the lock is still the shared state when it writes
ReadIsCurrent ==
    /\ InBody(upd) => upd.seen = Shared
    /\ InBody(fl) => fl.seen = Shared

\* update() leaves the state its whole body makes of the current one
WholeUpdate ==
    InBody(upd) /\ upd' = <<>> =>
        LET r == UpdateSeg(segments, completed, merge_consecutive,
                           upd.spk, upd.text, upd.now)
        IN  segments' = r.segments /\ completed' = r.completed

\* flush_ready() retires exactly what is ready in the current state
WholeFlush ==
    InBody(fl) /\ fl'# <<>> /\ fl'.pc = "return" =>
        /\ fl'.to_flush = ToFlush(segments, completed, fl.now)
        /\ segments' = RemainingSegments(segments, fl.now)
        /\ completed' = RemainingCompleted(completed, fl.now)
        /\ lock' = ""

\* C13: update() and flush_ready() exclude each other on the draft map and
\* the completed queue: the lock is held by exactly the one call that is
\* inside its with block, what that call read is still the shared state
\* when it writes (no update is lost, no draft is modified and retired from
\* the same state), the lock is free again when flush_ready() returns its
\* list, and it is free whenever no call is inside its with block.
C13_LockExclusion ==
    /\ [][WholeUpdate /\ WholeFlush]_vars
    /\ [](HeldByBody /\ ReadIsCurrent)

\* update() waits for the lock while flush_ready(), inside its with block,
\* is about to retire the speaker's draft
C13_Witness ==
    /\ lock = "flush_ready"
    /\ upd # <<>>
    /\ upd.pc = "acquire"
    /\ HasSeg(segments, upd.spk)
    /\ ToFlush(segments, completed, fl.now) # <<>>

(***************************************************************************)
(* Properties of the end of the meeting.                                   *)
(***************************************************************************)
\* C14: clean shutdown - once the session has ended the emission loop has
\* terminated: it starts no further pass, no caption event is accepted and
\* no utterance is emitted (the snapshots still waiting are dropped).
C14_CleanShutdown ==
    [][session = "ended" =>
         /\ nTicks' = nTicks
         /\ tick' = tick
         /\ nCaptions' = nCaptions
         /\ sink' = sink]_vars

(***************************************************************************)
(* Properties of the time update() goes by.                                *)
(***************************************************************************)
\* C15: the tracker measures time by the event's own timestamp: after
\* update(speaker, text, ts) has taken a text, the speaker's draft was last
\* updated at ts, and a draft it created was started at ts.
C15_EventTime ==
    lastOp.op = "update" /\ ~Ignored(lastOp.text) =>
        /\ HasSeg(segments, lastOp.spk)
        /\ GetSeg(segments, lastOp.spk).updated_at = event_ts
        /\ GetSeg(segments, lastOp.spk).started_at <= event_ts

(***************************************************************************)
(* Properties of the branches of update().                                 *)
(***************************************************************************)
\* the step is an update() call that takes its text and finds a live draft
\* of its speaker
UpdatesDraft ==
    /\ nUpdates' = nUpdates + 1
    /\ ~Ignored(lastOp'.text)
    /\ HasSeg(segments, lastOp'.spk)

\* the draft the call finds, the gap it computes, what should_merge says
OldDraft == GetSeg(segments, lastOp'.spk)
Gap == now - OldDraft.updated_at
Similar == Merges(OldDraft.frag, lastOp'.text)

\* every other speaker's draft is where and what it was
OthersKept ==
    /\ Len(segments') = Len(segments)
    /\ \A i \in DOMAIN segments :
           /\ segments'[i].spk = segments[i].spk
           /\ segments[i].spk # lastOp'.spk => segments'[i] = segments[i]

\* C16: revision merge - an event with gap <= revision_window_seconds and
\* should_merge(fragment, text) true only replaces the fragment by the new
\* text and sets last_updated_at to now; started_at, the committed text,
\* the completed queue and the other speakers' drafts are unchanged.
C16_RevisionMerge ==
    [][UpdatesDraft /\ Gap <= revision_window_seconds /\ Similar =>
         /\ GetSeg(segments', lastOp'.spk) =
                [OldDraft EXCEPT !.frag = lastOp'.text, !.updated_at = now]
         /\ completed' = completed
         /\ OthersKept]_vars

\* Alice's draft revised one second later, from "hello" to "hello world",
\* next to Bob's draft and with nothing queued
C16_Witness ==
    /\ lastOp.op = "update"
    /\ lastOp.spk = "Alice"
    /\ lastOp.text = HelloWorld
    /\ HasSeg(segments, "Alice")
    /\ HasSeg(segments, "Bob")
    /\ GetSeg(segments, "Alice").frag = HelloWorld
    /\ GetSeg(segments, "Alice").started_at < GetSeg(segments, "Alice").updated_at
    /\ GetSeg(segments, "Alice").updated_at = now
    /\ completed = <<>>

\* C17: outside-window split - an event with revision_window_seconds < gap
\* <= force_split_gap_seconds and should_merge(fragment, text) false queues
\* the draft's full text as a completed segment stamped with the draft's
\* last update time, and replaces the draft by a fresh one: fragment = the
\* new text, committed text empty, both timestamps = the time of the event.
C17_OutsideWindowSplit ==
    [][/\ UpdatesDraft
       /\ Gap > revision_window_seconds
       /\ Gap <= force_split_gap_seconds
       /\ ~Similar
       =>
       /\ completed' = Append(completed, Utterance(lastOp'.spk, SegmentText(OldDraft),
                                                   OldDraft.updated_at))
       /\ SegmentText(OldDraft) # <<>>
       /\ GetSeg(segments', lastOp'.spk) = Segment(lastOp'.spk, <<>>, lastOp'.text, now, now)
       /\ OthersKept]_vars

\* "hello world" cut off by "goodbye" five or six seconds later
C17_Witness ==
    /\ lastOp.op = "update"
    /\ lastOp.text = Goodbye
    /\ completed # <<>>
    /\ completed[Len(completed)].text = HelloWorld
    /\ now - completed[Len(completed)].t > revision_window_seconds
    /\ now - completed[Len(completed)].t <= force_split_gap_seconds
    /\ GetSeg(segments, lastOp.spk) = Segment(lastOp.spk, <<>>, Goodbye, now, now)

\* none of the force-split, revision-merge and outside-window-split rules
\* applies to the event
NoRuleApplies ==
    /\ UpdatesDraft
    /\ ~ForceSplit(Gap)
    /\ ~(Gap <= revision_window_seconds /\ Similar)
    /\ ~(Gap > revision_window_seconds /\ ~Similar)

\* C18: incremental mode (merge_consecutive false) - an event to which none
\* of the three rules applies only overwrites the draft's fragment and sets
\* last_updated_at to now: the draft stays, nothing is appended to the
\* completed queue, started_at and committed text are unchanged; and no
\* update() call returns or emits anything, utterances come out of
\* flush_ready() only.
C18_IncrementalOverwrite ==
    [][/\ (NoRuleApplies /\ ~merge_consecutive =>
              /\ segments' = <<[OldDraft EXCEPT !.frag = lastOp'.text, !.updated_at = now]>>
              /\ completed' = completed)
       /\ (nUpdates' = nUpdates + 1 =>
              /\ lastOp'.op = "update"
              /\ lastOp'.ret = <<>>
              /\ nOut' = nOut)
       /\ (nOut' # nOut => lastOp'.op = "flush_ready")]_vars

\* "hello" overwritten by the unrelated "goodbye" within the revision
\* window, in incremental mode
C18_Witness ==
    /\ ~merge_consecutive
    /\ lastOp.op = "update"
    /\ lastOp.text = Goodbye
    /\ run.n = 2
    /\ run.gap <= revision_window_seconds
    /\ completed = <<>>
    /\ segments = <<Segment(RunSpeaker, <<>>, Goodbye, run.first, now)>>
    /\ run.first < now
    /\ nOut = 0

\* the event falls through to the grouped-mode branch
Grouped == NoRuleApplies /\ merge_consecutive

\* the committed text after a fold: the trimmed fragment after the trimmed
\* committed text and one space, or the fragment alone
Folded ==
    IF Strip(OldDraft.combined) # <<>>
    THEN Strip(OldDraft.combined) \o <<" ">> \o Strip(OldDraft.frag)
    ELSE Strip(OldDraft.frag)

\* the short pause: the fragment buffer rotates, the draft stays
FoldsOnShortPause ==
    Grouped /\ Gap <= merge_gap_seconds =>
        /\ Strip(OldDraft.frag) # <<>>
        /\ segments' = <<[OldDraft EXCEPT !.combined = Folded, !.frag = lastOp'.text,
                                          !.updated_at = now]>>
        /\ completed' = completed

\* C19: grouped mode (merge_consecutive true) - for an event to which none
\* of the three rules applies, a gap > merge_gap_seconds starts a fresh
\* draft and queues the old one as a completed segment, unless the old
\* draft's full text is empty after trimming, in which case it is dropped
\* without being queued; otherwise the previous fragment is appended to the
\* committed text with a single space, the fragment becomes the new text
\* and the draft is not retired (started_at unchanged, nothing queued).
C19_GroupedMode ==
    [][/\ (Grouped /\ Gap > merge_gap_seconds =>
              /\ segments' = <<Segment(lastOp'.spk, <<>>, lastOp'.text, now, now)>>
              /\ completed' =
                     IF SegmentText(OldDraft) # <<>>
                     THEN Append(completed, Utterance(lastOp'.spk, SegmentText(OldDraft),
                                                      OldDraft.updated_at))
                     ELSE completed)
       /\ FoldsOnShortPause]_vars

\* "goodbye" folded after "hello" into the committed text "hello goodbye"
C19_Witness ==
    /\ merge_consecutive
    /\ lastOp.op = "update"
    /\ run.n = 3
    /\ completed = <<>>
    /\ segments = <<Segment(RunSpeaker, Hello \o <<" ">> \o Goodbye, lastOp.text,
                            run.first, now)>>

\* C19 as stated: in grouped mode every gap > merge_gap_seconds queues the
\* old draft as a completed segment.
C19_AlwaysQueued ==
    [][Grouped /\ Gap > merge_gap_seconds =>
         completed' = Append(completed, Utterance(lastOp'.spk, SegmentText(OldDraft),
                                                  OldDraft.updated_at))]_vars

(***************************************************************************)
(* Properties of flush_ready().                                            *)
(***************************************************************************)
\* the step is a flush_ready() call
Flushes == lastOp'.op = "flush_ready" /\ lastOp' # lastOp

\* the draft is due at the time of the call
Due(seg) ==
    \/ now - seg.updated_at >= idle_seconds
    \/ now - seg.started_at >= max_segment_seconds

\* how many times the returned list holds the draft's utterance
TimesReturned(ret, seg) ==
    Cardinality({i \in DOMAIN ret :
                     ret[i] = Utterance(seg.spk, SegmentText(seg), seg.updated_at)})

\* the utterances already waiting in the completed queue that equal the
\* draft's
TimesQueued(seg) ==
    Cardinality({i \in DOMAIN completed :
                     /\ CompletedReady(completed[i], now)
                     /\ completed[i] = Utterance(seg.spk, SegmentText(seg), seg.updated_at)})

Waited(c) == now - c.t >= idle_seconds
StillWaiting(c) == ~Waited(c)

\* C21: completed queue - a flush_ready() call at time now returns (first,
\* and in queue order) and removes exactly the completed segments with
\* now - finalized_at >= idle_seconds; the others stay queued, unchanged
\* and in their order; finalized_at is the last update time of the draft
\* the segment was split from.
C21_CompletedQueue ==
    [][/\ (Flushes =>
              /\ SubSeq(lastOp'.ret, 1, Len(SelectSeq(completed, Waited)))
                     = SelectSeq(completed, Waited)
              /\ completed' = SelectSeq(completed, StillWaiting)
              /\ Len(lastOp'.ret) - Len(SelectSeq(completed, Waited))
                     = Cardinality({i \in DOMAIN segments : Due(segments[i])}))
       /\ (UpdatesDraft /\ completed' # completed =>
              /\ Len(completed') = Len(completed) + 1
              /\ SubSeq(completed', 1, Len(completed)) = completed
              /\ completed'[Len(completed')].t = OldDraft.updated_at)]_vars

\* one call returns the older of two completed segments and leaves the
\* younger one queued
C21_Witness ==
    /\ lastOp.op = "flush_ready"
    /\ Len(lastOp.ret) >= 1
    /\ Len(completed) = 1
    /\ lastOp.ret[1].t < completed[1].t
    /\ now - lastOp.ret[1].t >= idle_seconds
    /\ now - completed[1].t < idle_seconds
    /\ segments # <<>>

\* C22: completed segments are never re-opened - an update() call, for any
\* speaker and any text, leaves every queued segment where and what it was
\* (it can only append one), and a segment leaves the queue only through
\* flush_ready(), which returns it as it was queued.
C22_NeverReopened ==
    [][/\ (nUpdates' = nUpdates + 1 =>
              /\ Len(completed') >= Len(completed)
              /\ SubSeq(completed', 1, Len(completed)) = completed)
       /\ (\E i \in DOMAIN completed :
               \A j \in DOMAIN completed' : completed'[j] # completed[i])
          => /\ lastOp'.op = "flush_ready"
             /\ \A i \in DOMAIN completed :
                    (\A j \in DOMAIN completed' : completed'[j] # completed[i])
                    => \E k \in DOMAIN lastOp'.ret : lastOp'.ret[k] = completed[i]]_vars

\* Alice repeats "hello" after it was split off and queued: the queued
\* segment is as it was, the repetition sits in her new draft
C22_Witness ==
    /\ lastOp.op = "update"
    /\ lastOp.spk = "Alice"
    /\ lastOp.text = Hello
    /\ completed # <<>>
    /\ completed[1] = Utterance("Alice", Hello, 0)
    /\ HasSeg(segments, "Alice")
    /\ GetSeg(segments, "Alice").frag = Hello
    /\ GetSeg(segments, "Alice").started_at > 0

(***************************************************************************)
(* Properties of the order of the output.                                  *)
(***************************************************************************)
\* the timestamps of the utterances returned so far never decrease
OutSorted == \A i \in DOMAIN out : \A j \in DOMAIN out : i < j => out[i].t <= out[j].t

\* nothing still held is older than something already returned
HeldAfterOut ==
    \A i \in DOMAIN out :
        /\ \A j \in DOMAIN completed : out[i].t <= completed[j].t
        /\ \A j \in DOMAIN segments : out[i].t <= segments[j].updated_at

\* C23: ordered emission - for one speaker the utterances come out in the
\* order their text was observed, within one flush_ready() result and
\* across calls: their timestamps never decrease, and while a completed
\* segment is still queued the draft that replaced it has not been
\* returned.
C23_OrderedEmission ==
    /\ [][Flushes /\ segments # <<>> /\ segments' = <<>> =>
            /\ completed' = <<>>
            /\ out'[Len(out')] = Utterance(segments[1].spk, SegmentText(segments[1]),
                                           segments[1].updated_at)]_vars
    /\ [](OutSorted /\ HeldAfterOut)

\* "hello", split off by "goodbye", came out before "goodbye", in one list
\* or in two
C23_Witness ==
    /\ Len(out) = 2
    /\ out[1].text = Hello
    /\ out[2].text = Goodbye
    /\ out[1].t < out[2].t
    /\ segments = <<>>
    /\ completed = <<>>

(***************************************************************************)
(* Properties of the helpers.                                              *)
(***************************************************************************)
\* the one draft of the speaker is returned by this flush_ready() call
ReturnsDraft == Flushes /\ segments # <<>> /\ Due(segments[1])
Returned == lastOp'.ret[Len(lastOp'.ret)].text

\* this update() call queues the draft it finds
QueuesDraft == UpdatesDraft /\ completed' # completed
Queued == completed'[Len(completed')].text

\* the two parts trimmed, one space between them when neither is empty
Materialized(seg) ==
    LET c == Strip(seg.combined)
        f == Strip(seg.frag)
    IN  IF c # <<>> /\ f # <<>> THEN c \o <<" ">> \o f
        ELSE IF c # <<>> THEN c ELSE f

\* the two parts as they are stored, one space between them when neither is
\* the empty string
JoinedAsStored(seg) ==
    IF seg.combined # <<>> /\ seg.frag # <<>> THEN seg.combined \o <<" ">> \o seg.frag
    ELSE IF seg.combined # <<>> THEN seg.combined ELSE seg.frag

\* C24: segment text materialization - the text of a flushed or queued
\* segment is the trimmed committed text and the trimmed current fragment
\* joined by exactly one space when both are non-empty after trimming, and
\* otherwise whichever of the two is non-empty after trimming (empty when
\* both are).
C24_SegmentText ==
    [][/\ (ReturnsDraft => Returned = Materialized(segments[1]))
       /\ (QueuesDraft => Queued = Materialized(OldDraft))]_vars

\* a draft with committed text "hello" and the fragment "goodbye" comes
\* out as "hello goodbye"
C24_Witness ==
    /\ lastOp.op = "flush_ready"
    /\ lastOp.ret # <<>>
    /\ lastOp.ret[Len(lastOp.ret)].text = Hello \o <<" ">> \o Goodbye
    /\ out = lastOp.ret
    /\ segments = <<>>

\* C24 as stated: the committed text and the fragment as they are, joined
\* by one space when both are non-empty, else whichever is non-empty.
C24_JoinedAsStored ==
    [][/\ (ReturnsDraft => Returned = JoinedAsStored(segments[1]))
       /\ (QueuesDraft => Queued = JoinedAsStored(OldDraft))]_vars

\* the length of the longest alphanumeric prefix of s
RECURSIVE AlnumPrefix(_)
AlnumPrefix(s) ==
    IF s = <<>> \/ ~IsAlnum(s[1]) THEN 0 ELSE 1 + AlnumPrefix(Tail(s))

\* the maximal alphanumeric runs of s, in order
RECURSIVE Words(_)
Words(s) ==
    IF s = <<>> THEN <<>>
    ELSE IF ~IsAlnum(s[1]) THEN Words(Tail(s))
    ELSE <<SubSeq(s, 1, AlnumPrefix(s))>> \o Words(SubSeq(s, AlnumPrefix(s) + 1, Len(s)))

\* the words with one space between neighbours
RECURSIVE JoinWords(_)
JoinWords(ws) ==
    IF ws = <<>> THEN <<>>
    ELSE IF Len(ws) = 1 THEN ws[1]
    ELSE ws[1] \o <<" ">> \o JoinWords(Tail(ws))

\* no two spaces in a row
SingleSpaced(s) == \A i \in 1..(Len(s) - 1) : ~(s[i] = " " /\ s[i + 1] = " ")

\* C25: text normalizer - for every input _norm returns the lowercased
\* string with each maximal run of non-alphanumeric characters replaced by
\* one space and the leading and trailing space removed; a missing or empty
\* input gives the empty string, and the result never holds two spaces in
\* a row.
C25_Normalizer ==
    fn # <<>> /\ fn.f = "_norm" =>
        /\ fn.ret = JoinWords(Words(Lower(OrEmpty(fn.args[1]))))
        /\ SingleSpaced(fn.ret)
        /\ fn.ret = Strip(fn.ret)
        /\ (OrEmpty(fn.args[1]) = <<>> => fn.ret = <<>>)

\* "B-\ta" gives "b a"
C25_Witness ==
    /\ fn # <<>>
    /\ fn.f = "_norm"
    /\ fn.args = << <<"B", "-", "\t", "a">> >>
    /\ fn.ret = <<"b", " ", "a">>

\* the step under test is a _should_merge call on two non-empty texts
MergeCalled ==
    /\ fn # <<>>
    /\ fn.f = "_should_merge"
    /\ fn.args[1] # <<>>
    /\ fn.args[2] # <<>>

\* the text holds no alphanumeric character
NoAlnum(s) == \A i \in DOMAIN s : ~IsAlnum(s[i])

\* one text starts with the other, character for character
RawPrefixes(a, b) == StartsWith(a, b) \/ StartsWith(b, a)

\* C26: similarity judge, degenerate case - for non-empty texts that are
\* not raw prefixes of one another, should_merge is true whenever one of
\* them normalizes to the empty string (holds no alphanumeric character).
C26_DegenerateMerge ==
    MergeCalled /\ ~RawPrefixes(fn.args[1], fn.args[2])
                /\ (NoAlnum(fn.args[1]) \/ NoAlnum(fn.args[2]))
        => fn.ret = TRUE

\* "- " against "aa": no common prefix, the first normalizes to nothing
C26_Witness ==
    /\ MergeCalled
    /\ fn.args = << <<"-", " ">>, <<"a", "a">> >>
    /\ fn.ret = TRUE

\* the last min(24, length) characters of a normalized text
LastChars(p) == SubSeq(p, Len(p) - (IF Len(p) > 24 THEN 24 ELSE Len(p)) + 1, Len(p))

\* needle occurs somewhere in hay
OccursIn(needle, hay) ==
    \E i \in 1..(Len(hay) - Len(needle) + 1) :
        SubSeq(hay, i, i + Len(needle) - 1) = needle

\* C27: similarity judge, tail match - for non-empty texts, should_merge is
\* true whenever the last min(24, length) characters of the normalized
\* previous text occur anywhere in the normalized current text.
C27_TailMatch ==
    MergeCalled /\ OccursIn(LastChars(Norm(fn.args[1])), Norm(fn.args[2]))
        => fn.ret = TRUE

\* the long pair: no shared prefix, neither contains the other, the previous
\* text is longer than the window and only its last 24 characters recur
C27_Witness ==
    /\ MergeCalled
    /\ fn.args = <<ShipFriday, WaitShipFriday>>
    /\ Len(Norm(ShipFriday)) > 24
    /\ ~RawPrefixes(ShipFriday, WaitShipFriday)
    /\ ~RawPrefixes(Norm(ShipFriday), Norm(WaitShipFriday))
    /\ ~OccursIn(Norm(ShipFriday), Norm(WaitShipFriday))
    /\ ~OccursIn(Norm(WaitShipFriday), Norm(ShipFriday))
    /\ OccursIn(LastChars(Norm(ShipFriday)), Norm(WaitShipFriday))
    /\ fn.ret = TRUE

RECURSIVE Collapse(_, _)
\* s from position i on, every whitespace run written as one space
Collapse(s, i) ==
    IF i > Len(s) THEN <<>>
    ELSE IF IsSpace(s[i])
         THEN IF i > 1 /\ IsSpace(s[i - 1]) THEN Collapse(s, i + 1)
              ELSE <<" ">> \o Collapse(s, i + 1)
         ELSE <<s[i]>> \o Collapse(s, i + 1)

\* the form two texts are compared in: lower case, whitespace runs collapsed,
\* whitespace at the cut left out
Compared(s) == Lower(Collapse(Strip(s), 1))

\* the first k characters of curr are a prefix of prev under the comparison
MatchesPrefix(prev, curr, k) ==
    \E m \in 0..Len(prev) : Compared(SubSeq(prev, 1, m)) = Compared(SubSeq(curr, 1, k))

\* the step under test is a _prefix_len call
PrefixCalled == fn # <<>> /\ fn.f = "_prefix_len"

\* C28: delta boundary - _prefix_len(prev, curr) returns a length k such that
\* every character of curr[:k] has been matched against prev: curr[:k] equals
\* a prefix of prev under case-insensitive comparison with every whitespace
\* run treated as one space.
C28_DeltaBoundary ==
    PrefixCalled => /\ fn.ret \in 0..Len(fn.args[2])
                    /\ MatchesPrefix(fn.args[1], fn.args[2], fn.ret)

\* the step just taken is one iteration of _emit_periodic's loop
Iterated == lastOp.op = "emit"

\* C29: when a tick does not emit for a speaker because the trimmed delta is
\* shorter than 2 characters, the speaker's last-snapshot record is still
\* set to the latest snapshot.
C29_ShortDeltaSync ==
    Iterated /\ ~Emits(lastOp.ret[2])
        => DictGet(emitted_last_by_speaker, lastOp.spk, <<>>) = lastOp.text

\* C30: the per-speaker last-emitted text is advanced to a snapshot only
\* when that snapshot's delta reached the output sink: an iteration whose
\* delta the dedup gate drops leaves the record as it was.
C30_AdvanceOnlyWhenSent ==
    [][(lastOp'.op = "emit" /\ Emits(lastOp'.ret[2]) /\ sink' = sink)
           => emitted_last_by_speaker' = emitted_last_by_speaker]_vars

\* the step just taken is a call of _emit_final
GateCalled == lastOp.op = "emit_final"

\* the emissions that reached the sink before the call just made
Earlier == IF lastOp.ret = "sent" THEN SubSeq(sink, 1, Len(sink) - 1) ELSE sink

\* the same (speaker, text) pair reached the sink less than the window ago
SamePairRecent ==
    \E i \in DOMAIN Earlier :
        /\ Earlier[i].spk = lastOp.spk
        /\ Earlier[i].text = lastOp.text
        /\ now - Earlier[i].at < DEDUP_WINDOW_SECONDS

\* the call just made sent the pair and recorded it at the current time
SentAndRecorded ==
    /\ sink # <<>>
    /\ sink[Len(sink)].spk = lastOp.spk
    /\ sink[Len(sink)].text = lastOp.text
    /\ sink[Len(sink)].at = now
    /\ DictGet(LAST_SENT, DedupeKey(lastOp.spk, lastOp.text), -1) = now

\* no speaker label seen so far holds the "|" of the key
HasBar(s) == \E i \in DOMAIN s : s[i] = "|"
PlainSpeakers == ~HasBar(lastOp.spk) /\ \A i \in DOMAIN sink : ~HasBar(sink[i].spk)

\* the pair is dropped exactly when it reached the sink less than the window
\* ago, and is sent and recorded otherwise
WindowRule ==
    /\ lastOp.ret = "dropped" <=> SamePairRecent
    /\ lastOp.ret = "sent" <=> ~SamePairRecent
    /\ lastOp.ret = "sent" => SentAndRecorded

\* C31: dedup window - while speaker labels hold no "|", a (speaker, text)
\* pair is dropped if and only if the same pair reached the sink less than
\* dedup_window_seconds earlier; a dropped attempt does not restart the
\* window, and the pair is sent and recorded again once the window has passed.
C31_DedupWindow == GateCalled /\ PlainSpeakers => WindowRule

\* sent at 0, dropped at 1, sent again at 2: the dropped attempt did not
\* restart the window
C31_Witness ==
    /\ GateCalled
    /\ PlainSpeakers
    /\ now = DEDUP_WINDOW_SECONDS
    /\ nCaptions = 3
    /\ lastOp.ret = "sent"
    /\ Len(sink) = 2
    /\ sink[1].spk = lastOp.spk /\ sink[1].text = lastOp.text /\ sink[1].at = 0

\* C31 as stated, for every speaker label: dropped if and only if the same
\* pair reached the sink less than dedup_window_seconds earlier.
C31_AnySpeaker == GateCalled => WindowRule

\* the speaker label, a "|", the text
Keyed(spk, txt) == spk \o <<"|">> \o txt

\* the earlier emissions, less than the window old, whose key is the key of
\* the pair just handed to the gate
Suppressors ==
    {i \in DOMAIN Earlier :
        /\ Keyed(Earlier[i].spk, Earlier[i].text) = Keyed(lastOp.spk, lastOp.text)
        /\ now - Earlier[i].at < DEDUP_WINDOW_SECONDS}

\* the same speaker and the same text
SamePair(i) == Earlier[i].spk = lastOp.spk /\ Earlier[i].text = lastOp.text

\* C36: dedup keys - an emission is dropped only if a pair with the same key
\* speaker|text was emitted within the window, and that pair has the same
\* speaker and the same text unless one of the two speaker labels holds a "|".
C36_KeyedSuppression ==
    GateCalled /\ lastOp.ret = "dropped"
        => /\ Suppressors # {}
           /\ \A i \in Suppressors :
                  SamePair(i) \/ HasBar(Earlier[i].spk) \/ HasBar(lastOp.spk)

\* ("a", "b|c") is dropped because ("a|b", "c") went out just before
C36_Witness ==
    /\ GateCalled
    /\ lastOp.ret = "dropped"
    /\ lastOp.spk = <<"a">>
    /\ lastOp.text = <<"b", "|", "c">>
    /\ Len(sink) = 1
    /\ sink[1].spk = <<"a", "|", "b">>
    /\ sink[1].text = <<"c">>

\* C36 as stated: an emission is dropped only if a pair with the same speaker
\* and the same text was emitted within the window.
C36_NoCollision ==
    GateCalled /\ lastOp.ret = "dropped" => \E i \in Suppressors : SamePair(i)

\* the step under test is an _emit_final call on the long table
PruneCalled == fn # <<>> /\ fn.f = "_emit_final"

\* the time of the call and the key handed to the gate
CallTime == fn.args[2]
CallKey == Keyed(Talker, fn.args[3])

\* the call passed the gate: the key was recorded at the time of the call
PassedGate == CallKey \notin DOMAIN fn.table
                  \/ CallTime - fn.table[CallKey] >= DEDUP_WINDOW_SECONDS

\* the table right after the key is recorded, before any sweep
Recorded(table) ==
    [key \in DOMAIN table \cup {CallKey} |-> IF key = CallKey THEN CallTime ELSE table[key]]

\* C32: dedup table pruning - on an emission that leaves the table with more
\* than 5000 entries, exactly the entries recorded more than 120 seconds ago
\* are removed, and an entry younger than dedup_window_seconds is never
\* removed.
C32_Pruning ==
    PruneCalled /\ PassedGate =>
        LET recorded == Recorded(fn.table)
            after == fn.ret
        IN  /\ Cardinality(DOMAIN recorded) > 5000 =>
                   /\ DOMAIN after = {key \in DOMAIN recorded :
                                         ~(CallTime - recorded[key] > 120)}
                   /\ \A key \in DOMAIN after : after[key] = recorded[key]
            /\ \A key \in DOMAIN recorded :
                   CallTime - recorded[key] < DEDUP_WINDOW_SECONDS => key \in DOMAIN after

\* 5001 keys after the new one is recorded at time 123: the keys recorded at
\* time 2 (121 seconds old) are gone, those recorded at time 3 (120 seconds
\* old) and the one recorded a second ago are still there
C32_Witness ==
    /\ PruneCalled
    /\ fn.args = <<5000, 123, <<"n", "e", "w">> >>
    /\ Cardinality(DOMAIN fn.table) = 5000
    /\ Cardinality(DOMAIN fn.ret) < 5000
    /\ fn.table[Keyed(Talker, NumberedText(12))] = 2
    /\ Keyed(Talker, NumberedText(12)) \notin DOMAIN fn.ret
    /\ fn.table[Keyed(Talker, NumberedText(13))] = 3
    /\ Keyed(Talker, NumberedText(13)) \in DOMAIN fn.ret
    /\ fn.table[Keyed(Talker, NumberedText(1))] = 122
    /\ Keyed(Talker, NumberedText(1)) \in DOMAIN fn.ret
    /\ fn.ret[CallKey] = 123

\* nothing but whitespace
AllSpace(s) == \A i \in DOMAIN s : IsSpace(s[i])

\* the utterance is a due draft that holds whitespace and nothing else
BlankDraftDue(u) ==
    \E j \in DOMAIN segments :
        /\ segments[j].spk = u.spk
        /\ segments[j].updated_at = u.t
        /\ Due(segments[j])
        /\ segments[j].frag # <<>>
        /\ AllSpace(segments[j].combined \o segments[j].frag)

\* C34: every segment flush_ready() returns has non-empty text, except a
\* live draft that holds nothing but whitespace, which is returned with
\* empty text; no entry of the completed queue has empty text.
C34_ReturnedText ==
    /\ [][Flushes => \A i \in DOMAIN lastOp'.ret :
                         lastOp'.ret[i].text = <<>> => BlankDraftDue(lastOp'.ret[i])]_vars
    /\ [](\A i \in DOMAIN completed : completed[i].text # <<>>)

\* "Hello" was returned, then the draft " " came out with empty text
C34_Witness ==
    /\ lastOp.op = "flush_ready"
    /\ Len(out) = 2
    /\ out[1].text = Hello
    /\ out[2].text = <<>>
    /\ lastOp.ret = <<out[2]>>

\* C34 as stated: no utterance with empty text is ever returned.
C34_NonEmptyText == \A i \in DOMAIN out : out[i].text # <<>>

\* the draft is in the table before the step and not after it
Leaves(seg) ==
    ~\E j \in DOMAIN segments' :
        segments'[j].spk = seg.spk /\ segments'[j].started_at = seg.started_at

\* the step is a flush_ready() call that returns the utterance
ReturnedNow(u) == Flushes /\ \E i \in DOMAIN lastOp'.ret : lastOp'.ret[i] = u

\* the step is an update() call that puts the utterance on the completed queue
QueuedNow(u) ==
    /\ UpdatesDraft
    /\ completed' = Append(completed, u)

\* something flush_ready() has to return whatever update() does: an entry on
\* the completed queue, or a draft that has reached the age cap
Overdue ==
    \/ completed # <<>>
    \/ \E j \in DOMAIN segments : TooLong(segments[j], now)

\* no draft and no completed entry stays for ever: one that stayed would be
\* overdue from the age cap on, whatever update() calls come in the meantime
AllLeave == []<>(~Overdue)

\* a completed entry leaves the queue only in the list flush_ready() returns
QueueLeavesReturned ==
    \A i \in DOMAIN completed :
        (\A k \in DOMAIN completed' : completed'[k] # completed[i])
            => ReturnedNow(completed[i])

OldFragment == Strip(OldDraft.frag)

\* update() received a text that is not a revision of the current fragment
FragmentBoundary == merge_consecutive /\ UpdatesDraft /\ ~Similar

\* the draft stays, and its committed text now ends with the old fragment
FragmentFolded ==
    /\ completed' = completed
    /\ \E k \in DOMAIN segments' :
           /\ segments'[k].started_at = OldDraft.started_at
           /\ Contains(segments'[k].combined, OldFragment)
           /\ StartsWith(segments'[k].combined, Strip(OldDraft.combined))

\* the old draft was queued as a completed segment that holds the fragment
FragmentQueued ==
    /\ Len(completed') = Len(completed) + 1
    /\ SubSeq(completed', 1, Len(completed)) = completed
    /\ completed'[Len(completed')].text = SegmentText(OldDraft)
    /\ Contains(completed'[Len(completed')].text, OldFragment)

\* the step is a flush_ready() call that returns an utterance holding the text
ReturnedWithin(text) ==
    Flushes /\ \E i \in DOMAIN lastOp'.ret : Contains(lastOp'.ret[i].text, text)

\* committed text stays in its draft, or goes to the completed queue with the
\* draft, or comes out in an utterance of flush_ready()
CommittedKept ==
    \A j \in DOMAIN segments :
        LET c == Strip(segments[j].combined)
        IN  c # <<>> =>
                \/ \E k \in DOMAIN segments' :
                       /\ segments'[k].started_at = segments[j].started_at
                       /\ StartsWith(segments'[k].combined, c)
                \/ /\ UpdatesDraft
                   /\ Len(completed') = Len(completed) + 1
                   /\ Contains(completed'[Len(completed')].text, c)
                \/ ReturnedWithin(c)

\* C35: grouped mode - when update() receives a text that is not a revision
\* of the speaker's current fragment, that fragment is non-empty after
\* trimming and is either folded into the draft's committed text or queued
\* with the draft as a completed segment; committed text and completed
\* entries are given up only inside an utterance that flush_ready() returns.
C35_NoFragmentLost ==
    [][/\ FragmentBoundary =>
              /\ OldFragment # <<>>
              /\ FragmentFolded \/ FragmentQueued
       /\ CommittedKept
       /\ QueueLeavesReturned]_vars

\* "Hello" was folded at the boundary with "Goodbye", and flush_ready() has
\* returned the utterance "Hello Goodbye"
C35_Witness ==
    /\ merge_consecutive
    /\ lastOp.op = "flush_ready"
    /\ Len(lastOp.ret) = 1
    /\ lastOp.ret[1].text = Hello \o <<" ">> \o Goodbye
    /\ completed = <<>>

\* the speakers with a snapshot, and the snapshot of one of them
SnapshotSpeakers(items) == {items[i].spk : i \in DOMAIN items}
SnapshotOf(items, s) == items[CHOOSE i \in DOMAIN items : items[i].spk = s].text

\* the record of what was last emitted for the speaker equals the snapshot
InSync(items, record, s) ==
    /\ s \in SnapshotSpeakers(items)
    /\ DictGet(record, s, <<>>) = SnapshotOf(items, s)

\* the step is the loop iteration of a tick for the speaker
TickOn(s) == lastOp'.op = "emit" /\ lastOp' # lastOp /\ lastOp'.spk = s

\* C37: a tick that emits the delta of a speaker's snapshot leaves the
\* speaker's record equal to that snapshot; from then on, as long as the
\* snapshot does not change, the record stays equal to it and every further
\* tick computes an empty delta for the speaker, calls _emit_final for
\* nothing and sends nothing.
C37_TickIdempotent ==
    [][\A s \in SnapshotSpeakers(curr_by_speaker) :
           /\ TickOn(s) /\ Emits(lastOp'.ret[2]) =>
                  InSync(curr_by_speaker', emitted_last_by_speaker', s)
           /\ /\ InSync(curr_by_speaker, emitted_last_by_speaker, s)
              /\ s \in SnapshotSpeakers(curr_by_speaker')
              /\ SnapshotOf(curr_by_speaker', s) = SnapshotOf(curr_by_speaker, s)
              => /\ InSync(curr_by_speaker', emitted_last_by_speaker', s)
                 /\ TickOn(s) => /\ lastOp'.ret[2] = <<>>
                                 /\ sink' = sink
                                 /\ LAST_SENT' = LAST_SENT]_vars

\* the first tick sent "Hi" for the speaker; the second tick found the same
\* snapshot, computed an empty delta and sent nothing
C37_Witness ==
    /\ nTicks = 2
    /\ lastOp.op = "emit"
    /\ lastOp.text = Hi
    /\ lastOp.ret = <<Hi, <<>>>>
    /\ Len(sink) = 1
    /\ sink[1].text = Hi

(***************************************************************************)
(* Properties of the backend.                                              *)
(***************************************************************************)
\* the planned messages that captions can trigger
KeywordPlans == {id \in DOMAIN app.planned_messages :
                    app.planned_messages[id].trigger_type \in KeywordTypes}

\* the chat command a keyword-triggered planned message is posted as
CommandOf(pm) == [type |-> "chat", text |-> Strip(pm.text), source |-> "planned_keyword"]

\* how many times the command was put on the queue in the history hist
TimesEnqueued(hist, pm) ==
    Cardinality({i \in DOMAIN hist : hist[i] = CommandOf(pm)})

\* C38: a keyword-triggered planned message is put on the command queue at
\* most once over all captions, whatever the order in which their handlers
\* reach the trigger; a step marks it "posted" only if that same step put
\* its command on the queue; and once it is "posted" it stays so and no
\* step puts its command on the queue again.
C38_PostedOnce ==
    /\ [](\A id \in KeywordPlans :
              TimesEnqueued(app.commands, app.planned_messages[id]) <= 1)
    /\ [][\A id \in KeywordPlans :
              LET pm == app.planned_messages[id]
                  newly == TimesEnqueued(app'.commands, pm) - TimesEnqueued(app.commands, pm)
              IN  /\ (pm.status # "posted" /\ app'.planned_messages[id].status = "posted")
                         => /\ newly = 1
                            /\ app'.queue = Append(app.queue, CommandOf(pm))
                  /\ pm.status = "posted"
                         => /\ newly = 0
                            /\ app'.planned_messages[id].status = "posted"]_vars

\* after a chat command and three captions the queue has taken message A
\* once, behind the chat command, and message A is marked "posted"
C38_Witness ==
    /\ lastOp.op = "keyword_trigger"
    /\ app.captions = <<>>
    /\ app.nCalls = 4
    /\ app.commands = <<[type |-> "chat", text |-> <<"h", "i">>, source |-> "api"],
                        CommandOf(app.planned_messages["pm1"])>>
    /\ app.planned_messages["pm1"].status = "posted"
    /\ app.planned_messages["pm2"].status = "pending"
    /\ app.queue = <<CommandOf(app.planned_messages["pm1"])>>

\* C39: session finalization (transcript, summary, meeting.summary.ready
\* webhook) has run at most once for the bot session, whichever handlers
\* have set its state to "ended".
C39_FinalizedOnce == app.finalized <= 1

====
